---- MODULE Spec2Model ----
(***************************************************************************)
(* Wenyan (src/wenyan.py): the lowered program's value stack, the          *)
(* pending-take protocol of the lowering pass, and the 1-based index       *)
(* helpers of the prelude.                                                 *)
(*                                                                         *)
(* Spec       the runtime value stack __暫存 under procedure calls,        *)
(*            returns, faults, 書之, 名之曰, 取 .. 以施                     *)
(* SpecLower  PythonAST轉譯器._轉句列/_轉句: the pending take               *)
(* SpecIndex  取物 / 置物 / lowered 昔今句 on one list, with 其 as index    *)
(***************************************************************************)
EXTENDS Integers, Sequences, FiniteSets, TLC

\* ------------------------------------------------------------------ bounds
MaxStack == 3      \* most values a statement may find on a stack before a push
MaxFrames == 2     \* most nested procedure bodies and 姑妄行此 blocks
MaxArgs == 2       \* most arguments of one 施
MaxSteps == 5      \* most statements and exits one run of the program executes

\* ------------------------------------------------------------------ values
\* Values are tokens.  "None" is Python's None, "fn" a continuation returned
\* by a partially applied procedure, "n1"/"n2" two distinct pushed values.
None == "None"
PushVals == {"n1", "n2"}

\* The procedures a program defines: the number of fixed parameters (需數)
\* and whether a rest parameter was declared (接其餘).
ProcSet == {[req |-> 0, rest |-> FALSE],
            [req |-> 1, rest |-> FALSE],
            [req |-> 1, rest |-> TRUE]}

StackIds == 1..(MaxFrames + 2)

VARIABLES
  heap,      \* list objects that are or were bound to __暫存: id -> contents
  cur,       \* the list object the global __暫存 is bound to
  frames,    \* active procedure bodies and try blocks, innermost last
  raising,   \* "no", or the exception in flight: "xuzhi" (文言之禍 虛指),
             \* "user" (文言之禍 raised by 嗚呼), "err" (a host exception)
  halted,    \* an exception left the top level: the program has ended
  ev,        \* the statement or exit that was executed last
  steps,     \* statements and exits executed so far
  \* --- the lowering pass (SpecLower)
  daiQuShu,    \* self._待取數: WuQu (None) or the count of the pending 取
  daiQuQiYu,   \* self._待取其餘: a 取其餘 is pending
  ctx,         \* the statement lists being lowered, innermost last
  huo,         \* the 文法之禍 that ended the compilation, or "none"
  wan,         \* the top-level statement list is lowered: compilation is done
  lev,         \* the statement lowered last
  \* --- one list and its indices (SpecIndex)
  lie,         \* the list 「列」
  fuSuo,       \* __文言負索 at the keys (id(列), k), k <= 0
  izhan,       \* __暫存 of the program that indexes the list
  iev,         \* the statement executed last
  \* --- procedure values and their calls (SpecCall)
  shuZhi,      \* the value the last call statement pushed
  yiCan,       \* the arguments supplied since the procedure was named, in order
  hlog,        \* body runs and __文言呼叫 calls of the last call statement
  hev,         \* the call statement executed last
  \* --- 姑妄行此 and its handlers (SpecTry)
  shiZhan,     \* the 試句 whose bodies are running, innermost last: their 捕捉列
  huoMing,     \* "none", the 名 of the 文言之禍 in flight, or "err" (a host exception)
  tev,         \* the statement or handler dispatch executed last
  \* --- imports (SpecImport)
  wenJian,     \* the files: path -> the modules its 吾嘗觀 statements name, in order
  huanJing,    \* 編譯環境: 宏快取, 宏解析中, 源碼快取, 編譯中, 已載入 (sets of paths),
               \* 模組快取 (path -> statement list)
  diaoZhan,    \* the calls in progress, innermost last
  guo,         \* "run", "done", or "xunhuan" (循環匯入 ended the compilation)
  chengXu,     \* the statements of the compiled program
  zhang,       \* per path: reads of the file, parses, results of _轉匯入句
  \* --- macro expansion (SpecMacro)
  hongLie,     \* 宏列: the macros, in declaration order
  wen,         \* 內容: the text, a sequence of characters
  hi,          \* the macro the for loop is at
  qiShi,       \* 起始: where the next search starts
  mguo,        \* "run", "done", or "weijin" (言未尽 ended the expansion)
  zhui,        \* the string literals of the text given, where each is now, and
               \* whether a substituted match has overlapped it
  mev,         \* the loop round taken last; ou: whether the replacements made are odd in number
  \* --- tokenizer (SpecLex)
  neiRong,     \* 內容: the source, a sequence of characters
  suoYin,      \* 索引: the position the tokenizer is at
  shuJuQi,     \* 數據起點: where the pending data run starts, 0 for None
  fuLie,       \* the tokens yielded
  lguo,        \* "idle", "run", "done", or the fault that ended the tokenizer
  \* --- numerals (SpecNum)
  shuZi,       \* whether 漢字數字 was called, the numeral, and what came back
  yuanFu,   \* --- parser (SpecParse): the tokens of the source
  fuHao,   \* 符號列 when 解析程式 is over
  chengJu,   \* the statements of the 程式
  pguo,  \* "idle", "done", or "huo" for 文法之禍
  nti,   \* --- internal names (SpecName): the program compiled
  jinCheng,   \* hash() of the file keys, for every process started
  yiLie,  \* the process and the names of every compilation
  zuoYong,  \* --- scope analysis (SpecScope): whether _分析作用域 was called, the statements, the result
  geShi   \* --- list formatter (SpecCol): whether __文言格式列 was called, the item lengths, the indentation, the grouping

varsRun == <<heap, cur, frames, raising, halted, ev, steps>>
varsLower == <<daiQuShu, daiQuQiYu, ctx, huo, wan, lev>>
varsIndex == <<lie, fuSuo, izhan, iev>>
varsCall == <<shuZhi, yiCan, hlog, hev>>
varsTry == <<shiZhan, huoMing, tev>>
varsImport == <<wenJian, huanJing, diaoZhan, guo, chengXu, zhang>>
varsMacro == <<hongLie, wen, hi, qiShi, mguo, zhui, mev>>
varsLex == <<neiRong, suoYin, shuJuQi, fuLie, lguo>>
varsNum == <<shuZi>>
varsParse == <<yuanFu, fuHao, chengJu, pguo>>
varsName == <<nti, jinCheng, yiLie>>
varsScope == <<zuoYong>>
varsCol == <<geShi>>
vars == <<varsRun, varsLower, varsIndex, varsCall, varsTry, varsImport, varsMacro, varsLex, varsNum, varsParse, varsName, varsScope, varsCol>>

\* ------------------------------------------------------- prelude helpers
\* __其(): the top element (None on an empty stack); the stack is cleared.
Qi(s) == [val |-> IF s = <<>> THEN None ELSE s[Len(s)], stack |-> <<>>]

\* __取 without its length check: the slice s[-n:] of a short list is the list.
Qu_slice(n, s) ==
  IF n <= 0 THEN [ok |-> TRUE, args |-> <<>>, stack |-> s]
  ELSE IF n > Len(s) THEN [ok |-> TRUE, args |-> s, stack |-> <<>>]
  ELSE [ok |-> TRUE,
        args |-> SubSeq(s, Len(s) - n + 1, Len(s)),
        stack |-> SubSeq(s, 1, Len(s) - n)]

\* __取(數量): the top n values; raises 文言之禍("虛指") when n > len.
Qu(n, s) ==
  IF n <= 0 THEN [ok |-> TRUE, args |-> <<>>, stack |-> s]
  ELSE IF n > Len(s) THEN [ok |-> FALSE, args |-> <<>>, stack |-> s]
  ELSE [ok |-> TRUE,
        args |-> SubSeq(s, Len(s) - n + 1, Len(s)),
        stack |-> SubSeq(s, 1, Len(s) - n)]

\* __取其餘(): every value of the stack; an empty stack gives no arguments.
QuQiYu(s) ==
  IF s = <<>> THEN [ok |-> TRUE, args |-> <<>>, stack |-> s]
  ELSE [ok |-> TRUE, args |-> s, stack |-> <<>>]

\* __文言輸出列(值列) in the default mode: the values as they are.
ShuChuLie(s) == s

\* 書之句, 清: __暫存.clear() after the print.
Qing_skip(s) == s
Qing(s) == <<>>

\* ------------------------------------------------- procedure entry / exit
CallFrames == {i \in 1..Len(frames) : frames[i].kind = "call"}
InnerCall == CHOOSE i \in CallFrames : \A j \in CallFrames : j <= i

UsedIds(c, fr) == {c} \cup {fr[i].saved : i \in 1..Len(fr)}
                      \cup {fr[i].target : i \in 1..Len(fr)}

\* A list object nothing refers to any more holds nothing the program can see.
Collect(h, c, fr) == [i \in StackIds |-> IF i \in UsedIds(c, fr) THEN h[i] ELSE <<>>]

\* `[]` evaluated at body entry is a new list object.
FreshId(c, fr) == CHOOSE i \in StackIds :
                    /\ i \notin UsedIds(c, fr)
                    /\ \A j \in StackIds : j \notin UsedIds(c, fr) => i <= j

\* 術定義句, 初始化: 暫名 = __暫存; __暫存 = []
ChuShiHua_keep(h, saved, fresh) == [cur |-> saved, heap |-> h]
ChuShiHua(h, saved, fresh) == [cur |-> fresh, heap |-> [h EXCEPT ![fresh] = <<>>]]

\* 術定義句, 復原 (the finally clause): __暫存 = 暫名
FuYuan_skip(saved, bodyCur) == bodyCur
FuYuan(saved, bodyCur) == saved

FanHui_noqi(kind, v, s) ==
  CASE kind = "naide"   -> [val |-> v, stack |-> s]
    [] kind = "naideqi" -> Qi(s)
    [] kind = "naideyi" -> [val |-> None, stack |-> s]
    [] kind = "guikong" -> [val |-> None, stack |-> s]
    [] kind = "end"     -> [val |-> None, stack |-> s]

\* 返回句: the value of the return statement, and what it leaves of the body's
\* stack.  "naide" 乃得 <v>, "naideqi" 乃得 其, "naideyi" 乃得矣,
\* "guikong" 乃歸空無, "end" falling off the end of the body.
FanHui(kind, v, s) ==
  CASE kind = "naide"   -> [val |-> v, stack |-> s]
    [] kind = "naideqi" -> Qi(s)
    [] kind = "naideyi" -> Qi(s)
    [] kind = "guikong" -> [val |-> None, stack |-> s]
    [] kind = "end"     -> [val |-> None, stack |-> s]

ReturnsValue(kind) == kind \in {"naide", "naideqi", "naideyi"}

\* The wrapper 包函: with fewer arguments than fixed parameters it returns a
\* continuation and the body does not run; otherwise the body runs, and with
\* surplus arguments and no rest parameter the result is called with them.
BaoHan(p, n) ==
  IF n >= p.req
  THEN [run |-> TRUE, extra |-> (~p.rest /\ n > p.req)]
  ELSE [run |-> FALSE, extra |-> FALSE]

NoFrame == [kind |-> "try", saved |-> cur, target |-> cur, entry |-> <<>>, extra |-> FALSE]

\* The call `__暫存.append(f(args))` once its arguments are evaluated and the
\* stack holds h[cur]: `target` is the list whose append was looked up.
Call(h, p, n, op, info) ==
  LET w == BaoHan(p, n) IN
  IF ~w.run
  THEN /\ heap' = [h EXCEPT ![cur] = Append(@, "fn")]
       /\ UNCHANGED <<cur, frames, raising, halted>>
       /\ ev' = [op |-> op, ran |-> "partial", before |-> h[cur], info |-> info]
  ELSE LET ent == ChuShiHua(h, cur, FreshId(cur, frames)) IN
       /\ heap' = ent.heap
       /\ cur' = ent.cur
       /\ frames' = Append(frames, [kind |-> "call", saved |-> cur, target |-> cur,
                                    entry |-> h[cur], extra |-> w.extra])
       /\ UNCHANGED <<raising, halted>>
       /\ ev' = [op |-> op, ran |-> "body", before |-> h[cur], info |-> info]

Tick == steps < MaxSteps /\ steps' = steps + 1 /\ UNCHANGED <<varsLower, varsIndex, varsCall, varsTry, varsImport, varsMacro, varsLex, varsNum, varsParse, varsName, varsScope, varsCol>>
\* a statement executes / an exception is propagating
Running == raising = "no" /\ ~halted /\ Tick
Failing == ~halted /\ Tick
Room == Len(heap[cur]) < MaxStack
CanNest == Len(frames) < MaxFrames

\* ------------------------------------------------------------- statements
\* 夫句 with a literal or a name: __暫存.append(v)
Fu(v) ==
  /\ Running /\ Room
  /\ heap' = [heap EXCEPT ![cur] = Append(@, v)]
  /\ ev' = [op |-> "fu", before |-> heap[cur]]
  /\ UNCHANGED <<cur, frames, raising, halted>>

\* 夫 其: __暫存.append(__其())
FuQi ==
  /\ Running
  /\ LET q == Qi(heap[cur]) IN
       heap' = [heap EXCEPT ![cur] = Append(q.stack, q.val)]
  /\ ev' = [op |-> "fuqi", before |-> heap[cur]]
  /\ UNCHANGED <<cur, frames, raising, halted>>

\* 宣告句 吾有 n 數 with m names: the first m values are assigned to the
\* names, the other n - m are pushed.
XuanGao(n, m) ==
  /\ Running /\ m <= n /\ Len(heap[cur]) + (n - m) <= MaxStack
  /\ heap' = [heap EXCEPT ![cur] = @ \o [i \in 1..(n - m) |-> "n1"]]
  /\ ev' = [op |-> "xuangao", before |-> heap[cur], pushed |-> n - m]
  /\ UNCHANGED <<cur, frames, raising, halted>>

\* 書之句: print(*__文言輸出列(__暫存)); __暫存.clear()
ShuZhi ==
  /\ Running
  /\ heap' = [heap EXCEPT ![cur] = Qing(@)]
  /\ ev' = [op |-> "shuzhi", before |-> heap[cur], out |-> ShuChuLie(heap[cur])]
  /\ UNCHANGED <<cur, frames, raising, halted>>

\* 噫句: __暫存.clear()
Yi ==
  /\ Running
  /\ heap' = [heap EXCEPT ![cur] = <<>>]
  /\ ev' = [op |-> "yi", before |-> heap[cur]]
  /\ UNCHANGED <<cur, frames, raising, halted>>

\* 嗚呼句: raise 文言之禍(名)
WuHu ==
  /\ Running
  /\ raising' = "user"
  /\ ev' = [op |-> "wuhu", before |-> heap[cur]]
  /\ UNCHANGED <<heap, cur, frames, halted>>

\* 試句: the body of 姑妄行此 is entered ...
ShiRu ==
  /\ Running /\ CanNest
  /\ frames' = Append(frames, NoFrame)
  /\ ev' = [op |-> "shiru", before |-> heap[cur]]
  /\ UNCHANGED <<heap, cur, raising, halted>>

\* ... and left at its end without a fault.
ShiChu ==
  /\ Running /\ frames # <<>> /\ frames[Len(frames)].kind = "try"
  /\ frames' = SubSeq(frames, 1, Len(frames) - 1)
  /\ ev' = [op |-> "shichu", before |-> heap[cur]]
  /\ UNCHANGED <<heap, cur, raising, halted>>

\* 命名句: one `名 = __暫存.pop()` per name, emitted for reversed(名列).
Reverse(s) == [i \in 1..Len(s) |-> s[Len(s) + 1 - i]]
MingMingJu_forward(names) == names
MingMingJu(names) == Reverse(names)

\* The emitted pops run in order; pop() of an empty list raises IndexError.
RECURSIVE RunPops(_, _, _)
RunPops(targets, s, log) ==
  IF targets = <<>> THEN [ok |-> TRUE, stack |-> s, log |-> log]
  ELSE IF s = <<>> THEN [ok |-> FALSE, stack |-> s, log |-> log]
  ELSE RunPops(Tail(targets), SubSeq(s, 1, Len(s) - 1),
               Append(log, [name |-> Head(targets), val |-> s[Len(s)]]))

\* The name lists tried: k different names, 名之曰「n1」曰「n2」.. in this order.
MaxNames == 2
NameOf(i) == <<"jia", "yi", "bing", "ding">>[i]
NameLists == {[i \in 1..k |-> NameOf(i)] : k \in 1..MaxNames}

MingZhi(names) ==
  /\ Running
  /\ LET r == RunPops(MingMingJu(names), heap[cur], <<>>) IN
       /\ heap' = [heap EXCEPT ![cur] = r.stack]
       /\ raising' = IF r.ok THEN "no" ELSE "err"
       /\ ev' = [op |-> "mingzhi", before |-> heap[cur], names |-> names,
                 ok |-> r.ok, log |-> r.log]
  /\ UNCHANGED <<cur, frames, halted>>

\* 施句: __暫存.append(f(a1, .., an)); an argument 其 is a call of __其().
Shi(p, n, q) ==
  /\ Running /\ CanNest /\ Room
  /\ q => n >= 1
  /\ LET h == IF q THEN [heap EXCEPT ![cur] = Qi(heap[cur]).stack] ELSE heap
     IN Call(h, p, n, "shi", [stack |-> heap[cur], n |-> 0, depth |-> Len(frames), saved |-> cur])

\* 取 n .. 以施 f: __暫存.append(f(*__取(n)))
QuYiShi(n, p) ==
  /\ Running /\ CanNest
  /\ LET t == Qu(n, heap[cur]) IN
       IF ~t.ok
       THEN /\ raising' = "xuzhi"
            /\ ev' = [op |-> "qu", ran |-> "no", before |-> heap[cur],
                      info |-> [stack |-> heap[cur], n |-> n, depth |-> Len(frames), saved |-> cur]]
            /\ UNCHANGED <<heap, cur, frames, halted>>
       ELSE /\ Len(t.stack) < MaxStack
            /\ Call([heap EXCEPT ![cur] = t.stack], p, Len(t.args), "qu",
                    [stack |-> heap[cur], n |-> n, depth |-> Len(frames), saved |-> cur])

\* 取其餘 .. 以施 f: __暫存.append(f(*__取其餘()))
QuQiYuYiShi(p) ==
  /\ Running /\ CanNest
  /\ LET t == QuQiYu(heap[cur]) IN
       IF ~t.ok
       THEN /\ raising' = "xuzhi"
            /\ ev' = [op |-> "quqiyu", ran |-> "no", before |-> heap[cur],
                      info |-> [stack |-> heap[cur], n |-> 0, depth |-> Len(frames), saved |-> cur]]
            /\ UNCHANGED <<heap, cur, frames, halted>>
       ELSE Call([heap EXCEPT ![cur] = t.stack], p, Len(t.args), "quqiyu",
                 [stack |-> heap[cur], n |-> Len(t.args), depth |-> Len(frames), saved |-> cur])

\* 返回句 (or the end of the body) in the innermost procedure body: the value
\* is computed, the finally clause restores __暫存, and the caller's statement
\* appends the value to the list it had looked up, unless the wrapper first
\* hands the value to __文言呼叫 together with the surplus arguments.
Return(kind, v) ==
  /\ Running /\ CallFrames # {}
  /\ kind = "end" => frames[Len(frames)].kind = "call"
  /\ LET i == InnerCall
         f == frames[i]
         r == FanHui(kind, v, heap[cur])
         back == FuYuan(f.saved, cur)
         rest == SubSeq(frames, 1, i - 1)
         e == [kind |-> kind, ret |-> r.val, saved |-> f.saved,
               entry |-> f.entry, body |-> heap[cur]]
     IN
       IF f.extra /\ r.val # "fn"
       THEN \* __文言呼叫(結, ...) calls a value that is no callable: TypeError
            /\ raising' = "err"
            /\ cur' = back
            /\ frames' = rest
            /\ heap' = Collect(heap, back, rest)
            /\ ev' = [op |-> "return", done |-> FALSE] @@ e
            /\ UNCHANGED halted
       ELSE IF f.extra
       THEN \* the returned continuation takes the surplus arguments: its body runs
            \E x \in BOOLEAN :
              LET ent == ChuShiHua(Collect(heap, back, rest), back, FreshId(back, rest)) IN
              /\ cur' = ent.cur
              /\ heap' = ent.heap
              /\ frames' = Append(rest, [kind |-> "call", saved |-> back,
                                         target |-> f.target, entry |-> f.entry,
                                         extra |-> x])
              /\ ev' = [op |-> "chain", done |-> FALSE] @@ e
              /\ UNCHANGED <<raising, halted>>
       ELSE /\ cur' = back
            /\ frames' = rest
            /\ heap' = Collect([heap EXCEPT ![f.target] = Append(@, r.val)], back, rest)
            /\ ev' = [op |-> "return", done |-> TRUE] @@ e
            /\ UNCHANGED <<raising, halted>>

\* An exception in flight leaves a procedure body: the finally clause runs.
UnwindCall ==
  /\ raising # "no" /\ Failing
  /\ frames # <<>> /\ frames[Len(frames)].kind = "call"
  /\ LET f == frames[Len(frames)]
         back == FuYuan(f.saved, cur)
         rest == SubSeq(frames, 1, Len(frames) - 1)
     IN /\ cur' = back
        /\ frames' = rest
        /\ heap' = Collect(heap, back, rest)
        /\ ev' = [op |-> "unwind", saved |-> f.saved, entry |-> f.entry,
                  body |-> heap[cur]]
  /\ UNCHANGED <<raising, halted>>

\* 試句: `except 文言之禍` takes a 文言之禍 ...
Caught ==
  /\ raising \in {"xuzhi", "user"} /\ Failing
  /\ frames # <<>> /\ frames[Len(frames)].kind = "try"
  /\ frames' = SubSeq(frames, 1, Len(frames) - 1)
  /\ raising' = "no"
  /\ ev' = [op |-> "caught", before |-> heap[cur]]
  /\ UNCHANGED <<heap, cur, halted>>

\* ... and lets a host exception pass.
PassTry ==
  /\ raising = "err" /\ Failing
  /\ frames # <<>> /\ frames[Len(frames)].kind = "try"
  /\ frames' = SubSeq(frames, 1, Len(frames) - 1)
  /\ ev' = [op |-> "passed", before |-> heap[cur]]
  /\ UNCHANGED <<heap, cur, raising, halted>>

\* The exception leaves the module body: the program ends.
Uncaught ==
  /\ raising # "no" /\ Failing /\ frames = <<>>
  /\ halted' = TRUE
  /\ ev' = [op |-> "uncaught", before |-> heap[cur]]
  /\ UNCHANGED <<heap, cur, frames, raising>>

ReturnKinds == {"naide", "naideqi", "naideyi", "guikong", "end"}

NextRun ==
  \/ \E v \in PushVals : Fu(v)
  \/ FuQi
  \/ \E n \in 1..2, m \in 0..2 : XuanGao(n, m)
  \/ ShuZhi
  \/ Yi
  \/ WuHu
  \/ ShiRu
  \/ ShiChu
  \/ \E names \in NameLists : MingZhi(names)
  \/ \E p \in ProcSet, n \in 0..MaxArgs, q \in BOOLEAN : Shi(p, n, q)
  \/ \E n \in 1..(MaxStack + 1), p \in ProcSet : QuYiShi(n, p)
  \/ \E p \in ProcSet : QuQiYuYiShi(p)
  \/ \E kind \in ReturnKinds, v \in PushVals : Return(kind, v)
  \/ UnwindCall
  \/ Caught
  \/ PassTry
  \/ Uncaught

\* ================================================= the lowering pass
\* PythonAST轉譯器._轉句列 / _轉句: what the pass does with the pending take at
\* each statement of a list and at the list's end.
MaxTake == 2       \* largest count n of a 取 n
MaxNest == 2       \* most statement lists nested in one another
WuQu == 0          \* self._待取數 is None (取 n has n >= 1)

\* Statement kinds: "qu" 取 n, "quqiyu" 取其餘, "yishi" 以施, "zhushi" 註釋句,
\* "hong" 宏句, "fu" any other statement without a body, "block" a statement
\* with a body (若, 凡, 恆為是, 為是遍, 姑妄行此), "proc" 術定義句.
Kinds == {"qu", "quqiyu", "yishi", "zhushi", "hong", "fu", "block", "proc"}

DaiQu == daiQuShu # WuQu \/ daiQuQiYu

\* _轉句, first check: the kinds a statement may have while a take is pending.
KeGuo_all(kind) == TRUE
KeGuo(kind) == kind \in {"yishi", "qu", "quqiyu", "zhushi", "hong"}

\* 以施句: the take it consumed is no longer pending.
YiShiHou_keep(n, r) == [shu |-> n, qiyu |-> r]
YiShiHou(n, r) == [shu |-> WuQu, qiyu |-> FALSE]

\* 取句: 取其餘 sets the flag and clears the count, 取 n sets the count.
QuJu(kind, n) == IF kind = "quqiyu" THEN [shu |-> WuQu, qiyu |-> TRUE]
                 ELSE [shu |-> n, qiyu |-> FALSE]

Lowering == huo = "none" /\ ~wan /\ UNCHANGED <<varsRun, varsIndex, varsCall, varsTry, varsImport, varsMacro, varsLex, varsNum, varsParse, varsName, varsScope, varsCol>>
Before(kind, n) == [op |-> kind, n |-> n, pend |-> DaiQu, shu |-> daiQuShu,
                    qiyu |-> daiQuQiYu, prev |-> lev.op, depth |-> Len(ctx)]

\* A statement that is refused while a take is pending.
QuHouXu(kind) ==
  /\ Lowering /\ kind \in Kinds
  /\ kind \in {"block", "proc"} => Len(ctx) < MaxNest
  /\ DaiQu /\ ~KeGuo(kind)
  /\ huo' = "QuHouXuYiShi"
  /\ lev' = Before(kind, 0)
  /\ UNCHANGED <<daiQuShu, daiQuQiYu, ctx, wan>>

\* 取句
Qu_(kind, n) ==
  /\ Lowering /\ kind \in {"qu", "quqiyu"}
  /\ ~DaiQu \/ KeGuo(kind)
  /\ LET q == QuJu(kind, n) IN daiQuShu' = q.shu /\ daiQuQiYu' = q.qiyu
  /\ lev' = Before(kind, IF kind = "qu" THEN n ELSE 0)
  /\ UNCHANGED <<ctx, huo, wan>>

\* 以施句
YiShi ==
  /\ Lowering
  /\ ~DaiQu \/ KeGuo("yishi")
  /\ IF ~DaiQu
     THEN /\ huo' = "YiShiXuXianQu"
          /\ UNCHANGED <<daiQuShu, daiQuQiYu>>
     ELSE /\ LET a == YiShiHou(daiQuShu, daiQuQiYu) IN
               daiQuShu' = a.shu /\ daiQuQiYu' = a.qiyu
          /\ UNCHANGED huo
  /\ lev' = Before("yishi", 0)
  /\ UNCHANGED <<ctx, wan>>

\* 註釋句, 宏句: nothing is emitted, the pending take stays; any other
\* statement without a body is lowered only when no take is pending.
WuTi(kind) ==
  /\ Lowering /\ kind \in {"zhushi", "hong", "fu"}
  /\ ~DaiQu \/ KeGuo(kind)
  /\ lev' = Before(kind, 0)
  /\ UNCHANGED <<daiQuShu, daiQuQiYu, ctx, huo, wan>>

\* A statement with a body: _轉句列 is entered for the body.
RuTi ==
  /\ Lowering /\ Len(ctx) < MaxNest
  /\ ~DaiQu \/ KeGuo("block")
  /\ ctx' = Append(ctx, [kind |-> "block", yuanDaiQu |-> daiQuShu,
                         yuanDaiQuQiYu |-> daiQuQiYu])
  /\ lev' = Before("block", 0)
  /\ UNCHANGED <<daiQuShu, daiQuQiYu, huo, wan>>

\* 術定義句: the pending take is saved and reset, then _轉句列 is entered for
\* the body.
RuShu ==
  /\ Lowering /\ Len(ctx) < MaxNest
  /\ ~DaiQu \/ KeGuo("proc")
  /\ ctx' = Append(ctx, [kind |-> "proc", yuanDaiQu |-> daiQuShu,
                         yuanDaiQuQiYu |-> daiQuQiYu])
  /\ daiQuShu' = WuQu
  /\ daiQuQiYu' = FALSE
  /\ lev' = Before("proc", 0)
  /\ UNCHANGED <<huo, wan>>

\* _轉句列 reaches the end of its list: a take still pending is a fault;
\* otherwise the enclosing statement goes on (術定義句 restores the saved
\* take), or, at top level, the compilation is done.
LieZhong ==
  /\ Lowering
  /\ lev' = Before("end", 0)
  /\ IF DaiQu
     THEN /\ huo' = "QuHouWeiYiShi"
          /\ UNCHANGED <<daiQuShu, daiQuQiYu, ctx, wan>>
     ELSE IF ctx = <<>>
     THEN /\ wan' = TRUE
          /\ UNCHANGED <<daiQuShu, daiQuQiYu, ctx, huo>>
     ELSE LET c == ctx[Len(ctx)] IN
          /\ ctx' = SubSeq(ctx, 1, Len(ctx) - 1)
          /\ daiQuShu' = IF c.kind = "proc" THEN c.yuanDaiQu ELSE daiQuShu
          /\ daiQuQiYu' = IF c.kind = "proc" THEN c.yuanDaiQuQiYu ELSE daiQuQiYu
          /\ UNCHANGED <<huo, wan>>

NextLower ==
  \/ \E kind \in Kinds : QuHouXu(kind)
  \/ \E kind \in {"qu", "quqiyu"}, n \in 1..MaxTake : Qu_(kind, n)
  \/ YiShi
  \/ \E kind \in {"zhushi", "hong", "fu"} : WuTi(kind)
  \/ RuTi
  \/ RuShu
  \/ LieZhong

\* ================================================= one list and its indices
\* The prelude's 取物 / 置物 on a list, the lowered 昔之「列」之<k>者今<v>是矣
\* and 夫「列」之<k>, with a literal or with 其 as the index.  One list is
\* indexed, so the key (id(物), 索) of __文言負索 is the index alone.
MaxLen == 3        \* longest list, and largest positive index
MaxNeg == 1        \* how far below zero an index goes
MaxIZhan == 2      \* most values on the stack before a push
MaxISteps == 4     \* most statements one run executes

ListVals == {"a", "b"}
Absent == "absent"
\* the numbers a program pushes to use them as an index through 其
IdxToks == {"m1", "n0", "n1", "n2", "n3"}
MinIdx == -MaxNeg
NegIdx == MinIdx..0

\* 文言轉整(值, 0): int(float(值)); 0 for a value that is no number.
ZhuanZheng(v) ==
  CASE v = "m1" -> -1
    [] v = "n1" -> 1
    [] v = "n2" -> 2
    [] v = "n3" -> 3
    [] OTHER -> 0

\* 取物(物, 端) for a list and an integer index.
QuWu(l, neg, k) ==
  IF k <= 0 THEN (IF neg[k] = Absent THEN None ELSE neg[k])
  ELSE IF k > Len(l) THEN None
  ELSE l[k]

Pad(l, n) == l \o [i \in 1..n |-> None]

\* 置物(物, 端, 實) for a list and an integer index: 索 -= 1, the list is
\* extended by 索 - len + 1 nulls, 物[索] = 實 (0-based).
ZhiWu_offbyone(l, neg, k, v) ==
  IF k <= 0 THEN [lie |-> l, suo |-> [neg EXCEPT ![k] = v]]
  ELSE LET ext == IF k >= Len(l) THEN Pad(l, k - Len(l) + 1) ELSE l
       IN [lie |-> [ext EXCEPT ![k + 1] = v], suo |-> neg]
ZhiWu(l, neg, k, v) ==
  IF k <= 0 THEN [lie |-> l, suo |-> [neg EXCEPT ![k] = v]]
  ELSE LET j == k - 1
           ext == IF j >= Len(l) THEN Pad(l, j - Len(l) + 1) ELSE l
       IN [lie |-> [ext EXCEPT ![j + 1] = v], suo |-> neg]

\* 刪物(物, 端) for a list and an integer index: a nonpositive index pops the
\* side-table entry, an index within the list deletes 物[索 - 1], an index
\* beyond the list does nothing.
ShanWu_invalidate(l, neg, k) ==
  IF k <= 0 THEN [lie |-> l, suo |-> [neg EXCEPT ![k] = Absent]]
  ELSE IF k <= Len(l)
  THEN [lie |-> SubSeq(l, 1, k - 1) \o SubSeq(l, k + 1, Len(l)),
        suo |-> [j \in DOMAIN neg |-> Absent]]
  ELSE [lie |-> l, suo |-> neg]
ShanWu_last(l, neg, k) ==
  IF k <= 0 THEN [lie |-> l, suo |-> [neg EXCEPT ![k] = Absent]]
  ELSE IF l # <<>>
  THEN LET j == IF k <= Len(l) THEN k ELSE Len(l)
       IN [lie |-> SubSeq(l, 1, j - 1) \o SubSeq(l, j + 1, Len(l)), suo |-> neg]
  ELSE [lie |-> l, suo |-> neg]
ShanWu(l, neg, k) ==
  IF k <= 0 THEN [lie |-> l, suo |-> [neg EXCEPT ![k] = Absent]]
  ELSE IF k <= Len(l)
  THEN [lie |-> SubSeq(l, 1, k - 1) \o SubSeq(l, k + 1, Len(l)), suo |-> neg]
  ELSE [lie |-> l, suo |-> neg]

\* _轉下標索引: an index expression is a literal number or 其, which lowers to
\* 文言轉整(__其(), 0).  e = [qi |-> BOOLEAN, k |-> Int].
SuoYin(e, s) == IF e.qi THEN [k |-> ZhuanZheng(Qi(s).val), stack |-> Qi(s).stack]
                ELSE [k |-> e.k, stack |-> s]

\* 昔今句, 前置: the index is evaluated once into the temporary 索名, and every
\* later use of the index is a load of that name.
SuoZhi_inline(tmp, e, s) == SuoYin(e, s).k
SuoZhi(tmp, e, s) == tmp

\* 昔今句 with a left index that is no string: the lowered statement after the
\* temporary is assigned; s is the stack at that point.
XiJinJu_overpad(l, neg, tmp, e, s, v) ==
  IF SuoZhi(tmp, e, s) <= 0
  THEN [lie |-> l, suo |-> [neg EXCEPT ![SuoZhi(tmp, e, s)] = v]]
  ELSE LET ext == IF SuoZhi(tmp, e, s) > Len(l)
                  THEN Pad(l, SuoZhi(tmp, e, s) - Len(l) + 1) ELSE l
       IN [lie |-> [ext EXCEPT ![(SuoZhi(tmp, e, s) - 1) + 1] = v], suo |-> neg]
XiJinJu(l, neg, tmp, e, s, v) ==
  IF SuoZhi(tmp, e, s) <= 0
  THEN [lie |-> l, suo |-> [neg EXCEPT ![SuoZhi(tmp, e, s)] = v]]
  ELSE LET ext == IF SuoZhi(tmp, e, s) > Len(l)
                  THEN Pad(l, SuoZhi(tmp, e, s) - Len(l)) ELSE l
       IN [lie |-> [ext EXCEPT ![(SuoZhi(tmp, e, s) - 1) + 1] = v], suo |-> neg]

ITick == iev.step < MaxISteps /\ UNCHANGED <<varsRun, varsLower, varsCall, varsTry, varsImport, varsMacro, varsLex, varsNum, varsParse, varsName, varsScope, varsCol>>
IBefore(op, k, v) == [op |-> op, k |-> k, v |-> v, lie |-> lie, suo |-> fuSuo,
                      zhan |-> izhan, step |-> iev.step + 1]
IdxExprs == {[qi |-> TRUE, k |-> 0]} \cup {[qi |-> FALSE, k |-> k] : k \in MinIdx..MaxLen}

\* 夫 <number>: the program pushes a number
IFu(t) ==
  /\ ITick /\ Len(izhan) < MaxIZhan
  /\ izhan' = Append(izhan, t)
  /\ iev' = IBefore("fu", 0, t)
  /\ UNCHANGED <<lie, fuSuo>>

\* 充「列」以<v>
Chong(v) ==
  /\ ITick /\ Len(lie) < MaxLen
  /\ lie' = Append(lie, v)
  /\ iev' = IBefore("chong", 0, v)
  /\ UNCHANGED <<fuSuo, izhan>>

\* 施「置物」於「列」於<k>於<v>: the helper's result 實 is pushed
ShiZhiWu(k, v) ==
  /\ ITick /\ Len(izhan) < MaxIZhan
  /\ LET r == ZhiWu(lie, fuSuo, k, v) IN lie' = r.lie /\ fuSuo' = r.suo
  /\ izhan' = Append(izhan, v)
  /\ iev' = IBefore("zhiwu", k, v)

\* 昔之「列」之<e>者今<v>是矣
XiJin(e, v) ==
  /\ ITick
  /\ LET i == SuoYin(e, izhan)
         r == XiJinJu(lie, fuSuo, i.k, e, i.stack, v)
     IN /\ i.k \in MinIdx..MaxLen
        /\ lie' = r.lie /\ fuSuo' = r.suo
        /\ izhan' = i.stack
        /\ iev' = IBefore(IF e.qi THEN "xijinqi" ELSE "xijin", i.k, v)

\* 昔之「列」之<e>者今不復存矣: the index goes into the temporary, then
\* 刪物(列, 索名)
XiJinShan(e) ==
  /\ ITick
  /\ LET i == SuoYin(e, izhan)
         r == ShanWu(lie, fuSuo, SuoZhi(i.k, e, i.stack))
     IN /\ i.k \in MinIdx..MaxLen
        /\ lie' = r.lie /\ fuSuo' = r.suo
        /\ izhan' = i.stack
        /\ iev' = IBefore(IF e.qi THEN "shanqi" ELSE "shan", i.k, None)

\* 夫「列」之<e>: __暫存.append(取物(列, <e>))
FuZhi(e) ==
  /\ ITick
  /\ LET i == SuoYin(e, izhan) IN
        /\ i.k \in MinIdx..MaxLen
        /\ Len(i.stack) < MaxIZhan
        /\ izhan' = Append(i.stack, QuWu(lie, fuSuo, i.k))
        /\ iev' = IBefore(IF e.qi THEN "fuzhiqi" ELSE "fuzhi", i.k, None)
  /\ UNCHANGED <<lie, fuSuo>>

NextIndex ==
  \/ \E t \in IdxToks : IFu(t)
  \/ \E v \in ListVals : Chong(v)
  \/ \E k \in MinIdx..MaxLen, v \in ListVals : ShiZhiWu(k, v)
  \/ \E e \in IdxExprs, v \in ListVals : XiJin(e, v)
  \/ \E e \in IdxExprs : FuZhi(e)
  \/ \E e \in IdxExprs : XiJinShan(e)

\* ================================================= specifications
\* ================================================= procedure values
\* The wrapper 包函 a 術定義句 emits, the continuations 續 and _後續, and
\* __文言呼叫, on the procedures of one program.
MaxCan == 3        \* most arguments supplied to one procedure value in all

CanVals == {"x", "y"}
WuShu == -1        \* the callable has no __文言術參數數__ attribute

\* The program's procedures: 需數, 接其餘, and what the body returns: "zhi", a
\* datum made of its parameters, or the procedure named.
ShuBiao ==
  [jia  |-> [req |-> 2, rest |-> FALSE, ret |-> "zhi"],
   yu   |-> [req |-> 1, rest |-> TRUE,  ret |-> "zhi"],
   fan  |-> [req |-> 0, rest |-> FALSE, ret |-> "jia"],
   lian |-> [req |-> 1, rest |-> FALSE, ret |-> "yu"]]
ShuMing == DOMAIN ShuBiao

\* Values: lei is "baohan" (a wrapper), "xu" (the wrapper's 續, closed over
\* the wrapper and can), "houxu" (__文言呼叫's _後續, closed over the wrapper
\* and can), "zhi" (the datum the body of shu made of the fixed parameters can
\* and the rest list yu), "cuo" (TypeError: a datum was called), "wu" (none).
ZhiOf(lei, shu, can, yu, xu, jie) ==
  [lei |-> lei, shu |-> shu, can |-> can, yu |-> yu, xu |-> xu, jie |-> jie]
WuZhi == ZhiOf("wu", "", <<>>, <<>>, WuShu, FALSE)
Cuo == ZhiOf("cuo", "", <<>>, <<>>, WuShu, FALSE)
\* 術定義句: 包函.__文言術參數數__ = 需數, 包函.__文言術接其餘__ = 接其餘
BaoHanZhi(m) == ZhiOf("baohan", m, <<>>, <<>>, ShuBiao[m].req, ShuBiao[m].rest)

\* 本函(*fixed[, rest]): the body's return value
BenHan(m, gu, yu) ==
  IF ShuBiao[m].ret = "zhi" THEN ZhiOf("zhi", m, gu, yu, WuShu, FALSE)
  ELSE BaoHanZhi(ShuBiao[m].ret)

\* log entries: a run of the body of shu, a call of __文言呼叫(f, *can)
TiShi(m, gu, yu) == [op |-> "ti", shu |-> m, can |-> gu, yu |-> yu, f |-> WuZhi]
HuShi(f, can) == [op |-> "hu", shu |-> "", can |-> can, yu |-> <<>>, f |-> f]

\* 群[:需數] and list(群[需數:])
GuCan(can, n) == SubSeq(can, 1, n)
YuCan_all(can, n) == can
YuCan(can, n) == SubSeq(can, n + 1, Len(can))

\* 續 / _後續: the arguments held followed by the later ones
XuCan_swap(can, hou) == hou \o can
XuCan(can, hou) == can \o hou

RECURSIVE DiaoYong(_, _), WenYanHuJiao(_, _)
\* f(*can) for a callable value f
DiaoYong(f, can) ==
  CASE f.lei = "baohan" ->
         LET p == ShuBiao[f.shu] IN
         IF Len(can) >= p.req
         THEN IF p.rest
              THEN [val |-> BenHan(f.shu, GuCan(can, p.req), YuCan(can, p.req)),
                    log |-> <<TiShi(f.shu, GuCan(can, p.req), YuCan(can, p.req))>>]
              ELSE LET jie == BenHan(f.shu, GuCan(can, p.req), <<>>)
                       ti == <<TiShi(f.shu, GuCan(can, p.req), <<>>)>>
                   IN IF Len(can) = p.req THEN [val |-> jie, log |-> ti]
                      ELSE LET h == WenYanHuJiao(jie, YuCan(can, p.req))
                           IN [val |-> h.val, log |-> ti \o h.log]
         ELSE [val |-> ZhiOf("xu", f.shu, can, <<>>, WuShu, FALSE), log |-> <<>>]
    [] f.lei \in {"xu", "houxu"} -> WenYanHuJiao(BaoHanZhi(f.shu), XuCan(f.can, can))
    [] OTHER -> [val |-> Cuo, log |-> <<>>]

\* __文言呼叫(術, *args).  Only wrappers reach the branch that builds _後續 in
\* these programs, so _後續 is closed over a wrapper.
WenYanHuJiao(f, can) ==
  LET hu == <<HuShi(f, can)>> IN
  IF f.xu = WuShu
  THEN LET d == DiaoYong(f, can) IN [val |-> d.val, log |-> hu \o d.log]
  ELSE IF Len(can) >= f.xu
  THEN IF f.jie
       THEN LET d == DiaoYong(f, can) IN [val |-> d.val, log |-> hu \o d.log]
       ELSE LET d == DiaoYong(f, GuCan(can, f.xu)) IN
            IF Len(can) = f.xu THEN [val |-> d.val, log |-> hu \o d.log]
            ELSE LET h == WenYanHuJiao(d.val, YuCan(can, f.xu))
                 IN [val |-> h.val, log |-> hu \o d.log \o h.log]
  ELSE [val |-> ZhiOf("houxu", f.shu, XuCan(f.can, can), <<>>, f.xu - Len(can), f.jie),
        log |-> hu]

RECURSIVE TiOf(_)
\* the body runs of a log
TiOf(log) == IF log = <<>> THEN <<>>
             ELSE IF Head(log).op = "ti" THEN <<Head(log)>> \o TiOf(Tail(log))
             ELSE TiOf(Tail(log))

CanLists == UNION {[1..k -> CanVals] : k \in 0..MaxCan}
Calling == UNCHANGED <<varsRun, varsLower, varsIndex, varsTry, varsImport, varsMacro, varsLex, varsNum, varsParse, varsName, varsScope, varsCol>>

\* 施「m」於..: a procedure is named and called
ShiMing(m, can) ==
  /\ Calling /\ hev.op = "init"
  /\ LET d == DiaoYong(BaoHanZhi(m), can) IN
       /\ shuZhi' = d.val
       /\ hlog' = d.log
  /\ yiCan' = can
  /\ hev' = [op |-> "ming", shu |-> m, can |-> can, qian |-> shuZhi]

\* 施「半」於..: the continuation the last call pushed is called
ShiXu(can) ==
  /\ Calling /\ hev.op # "init"
  /\ shuZhi.lei \in {"xu", "houxu"} /\ TiOf(hlog) = <<>>
  /\ Len(yiCan) + Len(can) <= MaxCan
  /\ LET d == DiaoYong(shuZhi, can) IN
       /\ shuZhi' = d.val
       /\ hlog' = d.log
  /\ yiCan' = yiCan \o can
  /\ hev' = [op |-> "xu", shu |-> hev.shu, can |-> can, qian |-> shuZhi]

NextCall ==
  \/ \E m \in ShuMing, can \in CanLists : ShiMing(m, can)
  \/ \E can \in CanLists : ShiXu(can)

\* ================================================= 姑妄行此
\* 試句: try: <body> except 文言之禍 as 禍: an if / elif chain over the named
\* handlers in source order, whose last else is the body of 不知何禍歟, or
\* pass when there is none.
MaxBu == 3         \* most handlers of the active 試句 in all
MaxShi == 2        \* most 試句 nested in one another

\* A handler: ming is the fault name of 豈「「ming」」之禍歟, or YiKe for
\* 不知何禍歟 (捕.亦可); bian: 名之曰 binds a variable to the fault.
YiKe == "*"
BuSet == [ming : {"da", "xiao", YiKe}, bian : BOOLEAN]
BuLie(n) == UNION {[1..k -> BuSet] : k \in 0..n}
HuoMing == {"da", "xiao"}

RECURSIVE XuanBu_yike(_, _, _)
XuanBu_yike(hs, m, i) ==
  IF \E j \in DOMAIN hs : hs[j].ming = YiKe
  THEN CHOOSE j \in DOMAIN hs : hs[j].ming = YiKe /\ \A k \in 1..(j - 1) : hs[k].ming # YiKe
  ELSE IF i > Len(hs) THEN 0
  ELSE IF hs[i].ming = m THEN i
  ELSE XuanBu_yike(hs, m, i + 1)

RECURSIVE XuanBu(_, _, _)
\* The handler whose body runs for a 文言之禍 named m, from handler i on: the
\* loop over 捕捉列 stops at the first 亦可, whose body is the chain's else;
\* 0: no body runs (pass).
XuanBu(hs, m, i) ==
  IF i > Len(hs) THEN 0
  ELSE IF hs[i].ming = YiKe THEN i
  ELSE IF hs[i].ming = m THEN i
  ELSE XuanBu(hs, m, i + 1)

Trying == UNCHANGED <<varsRun, varsLower, varsIndex, varsCall, varsImport, varsMacro, varsLex, varsNum, varsParse, varsName, varsScope, varsCol>>
TopShi == shiZhan[Len(shiZhan)]
RECURSIVE BuShu(_)
BuShu(z) == IF z = <<>> THEN 0 ELSE Len(Head(z)) + BuShu(Tail(z))
ChuShi == SubSeq(shiZhan, 1, Len(shiZhan) - 1)

\* 姑妄行此: the body of a 試句 with some 捕捉列 is entered
RuShi ==
  /\ Trying /\ huoMing = "none" /\ Len(shiZhan) < MaxShi
  /\ \E hs \in BuLie(MaxBu - BuShu(shiZhan)) : shiZhan' = Append(shiZhan, hs)
  /\ tev' = [op |-> "ru"]
  /\ UNCHANGED huoMing

\* 嗚呼「「m」」之禍 (raise 文言之禍(m)), or a host exception ("err")
ZhiHuo(m) ==
  /\ Trying /\ huoMing = "none" /\ tev.op # "zhi"
  /\ huoMing' = m
  /\ tev' = [op |-> "zhi"]
  /\ UNCHANGED shiZhan

\* The body of the innermost 試句 ends without an exception
ShiBi ==
  /\ Trying /\ huoMing = "none" /\ shiZhan # <<>>
  /\ shiZhan' = ChuShi
  /\ tev' = [op |-> "bi"]
  /\ UNCHANGED huoMing

\* The exception in flight reaches the innermost 試句: except 文言之禍 takes a
\* 文言之禍 and runs the chain; any other exception passes.
BuHuo ==
  /\ Trying /\ huoMing # "none" /\ shiZhan # <<>>
  /\ shiZhan' = ChuShi
  /\ IF huoMing = "err"
     THEN /\ tev' = [op |-> "guo", hs |-> TopShi, huo |-> huoMing]
          /\ UNCHANGED huoMing
     ELSE LET i == XuanBu(TopShi, huoMing, 1) IN
          /\ huoMing' = "none"
          /\ tev' = [op |-> "bu", hs |-> TopShi, huo |-> huoMing, ran |-> i,
                     bang |-> IF i > 0 /\ TopShi[i].bian THEN huoMing ELSE "none"]

\* No 試句 is left: the exception ends the program
WeiBu ==
  /\ Trying /\ huoMing # "none" /\ shiZhan = <<>> /\ tev.op # "wei"
  /\ tev' = [op |-> "wei", huo |-> huoMing]
  /\ UNCHANGED <<shiZhan, huoMing>>

NextTry ==
  \/ RuShi
  \/ \E m \in HuoMing \cup {"err"} : ZhiHuo(m)
  \/ ShiBi
  \/ BuHuo
  \/ WeiBu

\* ================================================= imports
\* 編譯為PythonAST on the file Gen: _前處理源碼 collects the macros of the
\* imported modules (_收集宏遞迴), then the translator lowers the statements
\* and _轉匯入句 compiles each imported module in the same 編譯環境.  A file is
\* its import statements, in order, followed by its own code; the lowered
\* code of the file m is the one statement m.
MaxHui == 2        \* most import statements of the compiled file

Gen == "R"
MoZu == {"R", "A", "B", "C"}
HuiLie(n) == UNION {[1..k -> MoZu] : k \in 0..n}

\* 路徑 in 環境.宏解析中 / 路徑 in 環境.編譯中
XunHuan_never(lu, zhong) == FALSE
XunHuan(lu, zhong) == lu \in zhong

\* 路徑 in 環境.已載入
YiZaiRu_never(lu, zai) == FALSE
YiZaiRu(lu, zai) == lu \in zai

\* 環境.模組快取[路徑] = 句列
MoKuaiCun_skip(kuai, lu, ju) == kuai
MoKuaiCun(kuai, lu, ju) == [kuai EXCEPT ![lu] = ju]

Importing == guo = "run" /\ UNCHANGED <<varsRun, varsLower, varsIndex, varsCall, varsTry, varsMacro, varsLex, varsNum, wenJian, varsParse, varsName, varsScope, varsCol>>
Ding == diaoZhan[Len(diaoZhan)]
DingHui == wenJian[Ding.lu]
\* the caller's frame goes on after the call returned the statements ju
Gui(z, ju) == [z EXCEPT ![Len(z)] = [@ EXCEPT !.i = @ + 1, !.ju = @ \o ju]]
\* _讀取源碼: the file is read unless 源碼快取 holds it
DuQu(z, lu) == IF lu \in huanJing.yuanKuai THEN z ELSE [z EXCEPT ![lu].du = @ + 1]

\* 編譯為PythonAST(內容, 文檔名) in a new 編譯環境, on some files: the compiled
\* file with MaxHui imports at most, the others with one at most.
BianYi ==
  /\ guo = "idle"
  /\ \E g \in HuiLie(MaxHui), f \in [MoZu \ {Gen} -> HuiLie(1)] :
        wenJian' = [m \in MoZu |-> IF m = Gen THEN g ELSE f[m]]
  /\ diaoZhan' = <<[jie |-> "qian", lu |-> Gen, i |-> 1, ju |-> <<>>]>>
  /\ guo' = "run"
  /\ UNCHANGED <<varsRun, varsLower, varsIndex, varsCall, varsTry, varsMacro, varsLex, varsNum, huanJing, chengXu, zhang, varsParse, varsName, varsScope, varsCol>>

\* _前處理源碼 / _收集宏遞迴 reach an import: _收集宏遞迴(模組路徑, ..)
ShouJiHong ==
  /\ Importing /\ Ding.jie \in {"qian", "hong"} /\ Ding.i <= Len(DingHui)
  /\ LET t == DingHui[Ding.i] IN
     IF t \in huanJing.hongKuai
     THEN /\ diaoZhan' = Gui(diaoZhan, <<>>)
          /\ UNCHANGED <<huanJing, guo, zhang>>
     ELSE IF XunHuan(t, huanJing.hongZhong)
     THEN /\ guo' = "xunhuan"
          /\ huanJing' = [huanJing EXCEPT !.bianZhong = {}]
          /\ UNCHANGED <<diaoZhan, zhang>>
     ELSE /\ huanJing' = [huanJing EXCEPT !.hongZhong = @ \cup {t},
                                          !.yuanKuai = @ \cup {t}]
          /\ zhang' = DuQu(zhang, t)
          /\ diaoZhan' = Append(diaoZhan, [jie |-> "hong", lu |-> t, i |-> 1, ju |-> <<>>])
          /\ UNCHANGED guo
  /\ UNCHANGED chengXu

\* _收集宏遞迴 is past its imports: 宏解析中.remove, 宏快取[路徑] = 宏列
HongBi ==
  /\ Importing /\ Ding.jie = "hong" /\ Ding.i > Len(DingHui)
  /\ huanJing' = [huanJing EXCEPT !.hongZhong = @ \ {Ding.lu},
                                  !.hongKuai = @ \cup {Ding.lu}]
  /\ diaoZhan' = Gui(SubSeq(diaoZhan, 1, Len(diaoZhan) - 1), <<>>)
  /\ UNCHANGED <<guo, chengXu, zhang>>

\* _前處理源碼 is past its imports: the text is expanded and parsed, and a
\* translator starts on its statements
QianBi ==
  /\ Importing /\ Ding.jie = "qian" /\ Ding.i > Len(DingHui)
  /\ diaoZhan' = [diaoZhan EXCEPT ![Len(diaoZhan)] =
                    [jie |-> "zhuan", lu |-> Ding.lu, i |-> 1, ju |-> <<>>]]
  /\ zhang' = [zhang EXCEPT ![Ding.lu].xi = @ + 1]
  /\ UNCHANGED <<huanJing, guo, chengXu>>

\* _轉匯入句
ZhuanHuiRu ==
  /\ Importing /\ Ding.jie = "zhuan" /\ Ding.i <= Len(DingHui)
  /\ LET t == DingHui[Ding.i] IN
     IF YiZaiRu(t, huanJing.yiZai)
     THEN /\ diaoZhan' = Gui(diaoZhan, <<>>)
          /\ zhang' = [zhang EXCEPT ![t].fan = Append(@, <<>>)]
          /\ UNCHANGED <<huanJing, guo>>
     ELSE IF XunHuan(t, huanJing.bianZhong)
     THEN /\ guo' = "xunhuan"
          /\ huanJing' = [huanJing EXCEPT !.bianZhong = {}]
          /\ UNCHANGED <<diaoZhan, zhang>>
     ELSE IF huanJing.moKuai[t] # <<>>
     THEN /\ huanJing' = [huanJing EXCEPT !.yiZai = @ \cup {t}]
          /\ diaoZhan' = Gui(diaoZhan, huanJing.moKuai[t])
          /\ zhang' = [zhang EXCEPT ![t].fan = Append(@, huanJing.moKuai[t])]
          /\ UNCHANGED guo
     ELSE /\ huanJing' = [huanJing EXCEPT !.bianZhong = @ \cup {t},
                                          !.yuanKuai = @ \cup {t}]
          /\ zhang' = DuQu(zhang, t)
          /\ diaoZhan' = Append(diaoZhan, [jie |-> "qian", lu |-> t, i |-> 1, ju |-> <<>>])
          /\ UNCHANGED guo
  /\ UNCHANGED chengXu

\* The translator is past the import statements: the file's own code is
\* lowered; an imported module's list goes to 模組快取 and to the importing
\* statement, the list of Gen is the program.
ZhuanBi ==
  /\ Importing /\ Ding.jie = "zhuan" /\ Ding.i > Len(DingHui)
  /\ LET ju == Ding.ju \o <<Ding.lu>> IN
     IF Len(diaoZhan) = 1
     THEN /\ chengXu' = ju
          /\ guo' = "done"
          /\ UNCHANGED <<huanJing, diaoZhan, zhang>>
     ELSE /\ huanJing' = [huanJing EXCEPT !.moKuai = MoKuaiCun(@, Ding.lu, ju),
                                          !.yiZai = @ \cup {Ding.lu},
                                          !.bianZhong = @ \ {Ding.lu}]
          /\ diaoZhan' = Gui(SubSeq(diaoZhan, 1, Len(diaoZhan) - 1), ju)
          /\ zhang' = [zhang EXCEPT ![Ding.lu].fan = Append(@, ju)]
          /\ UNCHANGED <<guo, chengXu>>

NextImport ==
  \/ BianYi
  \/ ShouJiHong
  \/ HongBi
  \/ QianBi
  \/ ZhuanHuiRu
  \/ ZhuanBi

\* ================================================= macro expansion
\* 擴展宏(內容, 宏列, 文檔名).  A text is a sequence of characters, written
\* "[" for 「, "]" for 」, "<" for 『, ">" for 』, letters for the rest (no line
\* ends).  A macro is its pattern, the characters qian, then a placeholder
\* (.+?) and the characters hou if zu, and its replacement zhi, in which "$"
\* stands for the placeholder.  Positions count from 1; the end of a span or
\* of a match is the position after its last character.
MaxDuan == 3       \* most pieces of the text given
MaxHong == 2       \* most macros

HongZu ==
  { [qian |-> <<"a">>, zu |-> FALSE, hou |-> <<>>, zhi |-> <<"b">>],
    [qian |-> <<"a">>, zu |-> FALSE, hou |-> <<>>, zhi |-> <<"a">>],
    [qian |-> <<"a">>, zu |-> TRUE, hou |-> <<"b">>, zhi |-> <<"c", "$">>],
    [qian |-> <<"a">>, zu |-> TRUE, hou |-> <<"b">>, zhi |-> <<"c">>] }
Duan ==
  { <<"a">>, <<"b">>, <<"<", "c", ">">>, <<"<", "c", "b", ">">>,
    <<"[", "[", "a", "c", "b", "]", "]">>, <<"<", "a">> }
RECURSIVE WenOf(_)
WenOf(n) == IF n = 0 THEN {<<>>} ELSE WenOf(n - 1) \cup {d \o w : d \in Duan, w \in WenOf(n - 1)}

\* 內容.startswith(p, i)
StartsWith(w, i, p) == i + Len(p) - 1 <= Len(w) /\ \A k \in 1..Len(p) : w[i + k - 1] = p[k]

\* The loop of _跳過引號: the position after the quote that brings 層級 to 0, or
\* 0 when the text ends first (言未尽).
RECURSIVE Sao(_, _, _)
Sao(w, i, ceng) ==
  IF i > Len(w) THEN 0
  ELSE LET d == IF w[i] = "[" THEN 1 ELSE IF w[i] = "]" THEN -1
                ELSE IF w[i] = "<" THEN 2 ELSE IF w[i] = ">" THEN -2 ELSE 0
       IN IF d < 0 /\ ceng + d = 0 THEN i + 1 ELSE Sao(w, i + 1, ceng + d)
\* _跳過引號 at a 「「 or a 『
TiaoGuoYinHao(w, qi) ==
  IF StartsWith(w, qi, <<"[", "[">>) THEN Sao(w, qi + 2, 2) ELSE Sao(w, qi + 1, 2)

\* 字串範圍: the spans of the string literals of the text; huo when one never ends
RECURSIVE ZiChuanFanWei(_, _)
ZiChuanFanWei(w, i) ==
  IF i > Len(w) THEN [fan |-> <<>>, huo |-> FALSE]
  ELSE IF StartsWith(w, i, <<"[", "[">>) \/ w[i] = "<"
  THEN LET r == TiaoGuoYinHao(w, i) IN
       IF r = 0 THEN [fan |-> <<>>, huo |-> TRUE]
       ELSE LET x == ZiChuanFanWei(w, r) IN [fan |-> <<<<i, r>>>> \o x.fan, huo |-> x.huo]
  ELSE ZiChuanFanWei(w, i + 1)

\* 左 <= 起點 < 右 for one of the spans
ZaiYan_never(s, fan) == FALSE
ZaiYan(s, fan) == \E k \in DOMAIN fan : fan[k][1] <= s /\ s < fan[k][2]
\* 範圍終: the end of the first span that holds s
FanWeiZhong(s, fan) ==
  fan[CHOOSE k \in DOMAIN fan : /\ fan[k][1] <= s /\ s < fan[k][2]
                                /\ \A j \in 1..(k - 1) : ~(fan[j][1] <= s /\ s < fan[j][2])][2]

MinOf(S) == CHOOSE x \in S : \A y \in S : x <= y
\* 宏.正則.search(內容, 起始): the leftmost match from qi on, the placeholder
\* taking as few characters as it can, one at least; zuo = 0 for no match
PiPei(w, h, qi) ==
  LET Zhong(s) == {e \in (s + Len(h.qian) + 1)..Len(w) : StartsWith(w, e, h.hou)}
      S == {s \in qi..Len(w) : StartsWith(w, s, h.qian) /\ (h.zu => Zhong(s) # {})}
  IN IF S = {} THEN [zuo |-> 0, you |-> 0, zu |-> <<>>]
     ELSE LET s == MinOf(S) IN
          IF h.zu
          THEN LET e == MinOf(Zhong(s)) IN
               [zuo |-> s, you |-> e + Len(h.hou), zu |-> SubSeq(w, s + Len(h.qian), e - 1)]
          ELSE [zuo |-> s, you |-> s + Len(h.qian), zu |-> <<>>]

\* _替換宏
RECURSIVE TianRu(_, _)
TianRu(zhi, zu) ==
  IF zhi = <<>> THEN <<>>
  ELSE (IF Head(zhi) = "$" THEN zu ELSE <<Head(zhi)>>) \o TianRu(Tail(zhi), zu)
TiHuanHong(h, m) == IF ~h.zu THEN h.zhi ELSE TianRu(h.zhi, m.zu)

Expanding == mguo = "run" /\ UNCHANGED <<varsRun, varsLower, varsIndex, varsCall, varsTry, varsImport, varsLex, varsNum, hongLie, varsParse, varsName, varsScope, varsCol>>
Hong == hongLie[hi]
FanWei == ZiChuanFanWei(wen, 1)
PiPeiDe == PiPei(wen, Hong, qiShi)

\* 擴展宏 is called on a text and a macro list.
KuoZhan ==
  /\ mguo = "idle"
  /\ hongLie' \in UNION {[1..k -> HongZu] : k \in 0..MaxHong}
  /\ wen' \in WenOf(MaxDuan)
  /\ zhui' = LET f == ZiChuanFanWei(wen', 1).fan IN
               [k \in DOMAIN f |-> [zuo |-> f[k][1], you |-> f[k][2],
                                     yuan |-> SubSeq(wen', f[k][1], f[k][2] - 1), po |-> FALSE]]
  /\ mguo' = "run"
  /\ UNCHANGED <<varsRun, varsLower, varsIndex, varsCall, varsTry, varsImport, varsLex, varsNum, hi, qiShi, mev, varsParse, varsName, varsScope, varsCol>>

\* if not 宏列: return 內容
KongHong ==
  /\ Expanding /\ hongLie = <<>>
  /\ mguo' = "done"
  /\ mev' = [mev EXCEPT !.op = "kong"]
  /\ UNCHANGED <<wen, hi, qiShi, zhui>>

\* A round of the while loop finds a string literal that never ends.
YanWeiJin ==
  /\ Expanding /\ hi <= Len(hongLie) /\ FanWei.huo
  /\ mguo' = "weijin"
  /\ mev' = [mev EXCEPT !.op = "weijin"]
  /\ UNCHANGED <<wen, hi, qiShi, zhui>>

\* 匹配 is None: break, and the for loop goes to the next macro or ends.
WuPiPei ==
  /\ Expanding /\ hi <= Len(hongLie) /\ ~FanWei.huo /\ PiPeiDe.zuo = 0
  /\ hi' = hi + 1 /\ qiShi' = 1
  /\ mguo' = IF hi = Len(hongLie) THEN "done" ELSE mguo
  /\ mev' = [mev EXCEPT !.op = "wu"]
  /\ UNCHANGED <<wen, zhui>>

\* The match starts in a string literal: 起始 = 範圍終; continue
TiaoGuo ==
  /\ Expanding /\ hi <= Len(hongLie) /\ ~FanWei.huo /\ PiPeiDe.zuo # 0
  /\ ZaiYan(PiPeiDe.zuo, FanWei.fan)
  /\ qiShi' = FanWeiZhong(PiPeiDe.zuo, FanWei.fan)
  /\ mev' = [op |-> "tiao", ti |-> mev.ti, tiao |-> TRUE, ou |-> mev.ou, zuo |-> PiPeiDe.zuo,
             you |-> PiPeiDe.you, fan |-> FanWei.fan, sun |-> {}]
  /\ UNCHANGED <<wen, hi, mguo, zhui>>

\* 內容 = 內容[: 匹配.start()] + 替換 + 內容[匹配.end() :]; 起始 = 匹配.start()
TiHuan ==
  /\ Expanding /\ hi <= Len(hongLie) /\ ~FanWei.huo /\ PiPeiDe.zuo # 0
  /\ ~ZaiYan(PiPeiDe.zuo, FanWei.fan)
  /\ LET m == PiPeiDe
         t == TiHuanHong(Hong, m)
         d == Len(t) - (m.you - m.zuo)
         Hit(z) == ~z.po /\ z.you > m.zuo /\ z.zuo < m.you
     IN /\ wen' = SubSeq(wen, 1, m.zuo - 1) \o t \o SubSeq(wen, m.you, Len(wen))
        /\ qiShi' = m.zuo
        /\ zhui' = [k \in DOMAIN zhui |->
                      IF zhui[k].po \/ zhui[k].you <= m.zuo THEN zhui[k]
                      ELSE IF zhui[k].zuo >= m.you
                      THEN [zhui[k] EXCEPT !.zuo = @ + d, !.you = @ + d]
                      ELSE [zhui[k] EXCEPT !.po = TRUE]]
        /\ mev' = [op |-> "ti", ti |-> TRUE, tiao |-> mev.tiao, ou |-> ~mev.ou, zuo |-> m.zuo,
                   you |-> m.you, fan |-> FanWei.fan,
                   sun |-> {<<zhui[k].zuo, zhui[k].you>> : k \in {j \in DOMAIN zhui : Hit(zhui[j])}}]
  /\ UNCHANGED <<hi, mguo>>

NextMacro ==
  \/ KuoZhan
  \/ KongHong
  \/ YanWeiJin
  \/ WuPiPei
  \/ TiaoGuo
  \/ TiHuan

\* ================================================= tokenizer
\* 詞法分析器.__iter__ on a source of the characters of some keywords: "nai"
\* 乃, "de" 得, "yi" 矣, "zhi" 止, "shi" 是, "bian" 遍, "ye" 也, and "x" for a
\* character that starts no keyword.  Positions count from 1, the end of a
\* token is the position after its last character.
MaxYuan == 4       \* most characters of a source of keyword characters
MaxYan == 6        \* most characters of a source of quotes

\* 關鍵詞, in the order of the list: 是也 乃得 乃得矣 也 乃止 乃止是遍
GuanJianCi ==
  << <<"shi", "ye">>, <<"nai", "de">>, <<"nai", "de", "yi">>, <<"ye">>,
     <<"nai", "zhi">>, <<"nai", "zhi", "shi", "bian">> >>

\* sorted(關鍵詞, key=len, reverse=True): longest first, the order of the list
\* kept among keywords of one length
RECURSIVE YiChangDu_up(_, _)
YiChangDu_up(cis, n) ==
  IF n = 0 THEN <<>> ELSE YiChangDu_up(cis, n - 1) \o SelectSeq(cis, LAMBDA k : Len(k) = n)
RECURSIVE YiChangDu(_, _)
YiChangDu(cis, n) ==
  IF n = 0 THEN <<>> ELSE SelectSeq(cis, LAMBDA k : Len(k) = n) \o YiChangDu(cis, n - 1)

\* _匹配關鍵詞: 關鍵詞前綴 of the character at i, first entry the source starts
\* with at i; <<>> for None
PiPeiGuanJianCi(w, i) ==
  LET chang == CHOOSE n \in {Len(GuanJianCi[k]) : k \in DOMAIN GuanJianCi} :
                 \A k \in DOMAIN GuanJianCi : Len(GuanJianCi[k]) <= n
      houXuan == SelectSeq(YiChangDu(GuanJianCi, chang), LAMBDA k : Head(k) = w[i])
      zhong == SelectSeq(houXuan, LAMBDA k : StartsWith(w, i, k))
  IN IF zhong = <<>> THEN <<>> ELSE Head(zhong)

\* The loop of _讀言 from the opening quote on, 層級 starting at 0: the
\* position after the character that brings 層級 to 0, or 0 when the source
\* ends first.
RECURSIVE DuYanZhong(_, _, _)
DuYanZhong(w, i, ceng) ==
  IF i > Len(w) THEN 0
  ELSE LET c == ceng + (IF w[i] = "[" THEN 1 ELSE IF w[i] = "]" THEN -1
                        ELSE IF w[i] = "<" THEN 2 ELSE IF w[i] = ">" THEN -2 ELSE 0)
       IN IF c = 0 THEN i + 1 ELSE DuYanZhong(w, i + 1, c)
\* _讀言 and the extra 」 of __iter__: the value and the end of the literal
\* that starts at qi; you = 0 for 言未尽
DuYan_any(w, qi) ==
  LET e == DuYanZhong(w, qi, 0) IN
  IF e # 0 /\ e <= Len(w) /\ w[e] = "]"
  THEN [zhi |-> Append(SubSeq(w, qi + 1, e - 2), "]"), you |-> e + 1]
  ELSE [zhi |-> SubSeq(w, qi + 1, e - 2), you |-> e]
DuYan(w, qi) ==
  LET e == DuYanZhong(w, qi, 0)
      pian == SubSeq(w, qi, e - 1)
      t == SubSeq(pian, (IF Head(pian) = "[" THEN 3 ELSE 2), Len(pian))
      zhi == SubSeq(t, 1, Len(t) - (IF t # <<>> /\ t[Len(t)] = "]" THEN 2 ELSE 1))
  IN IF e = 0 THEN [zhi |-> <<>>, you |-> 0]
     ELSE IF StartsWith(w, qi, <<"[", "[">>) /\ e <= Len(w) /\ w[e] = "]"
     THEN [zhi |-> Append(zhi, "]"), you |-> e + 1]
     ELSE [zhi |-> zhi, you |-> e]
\* _讀名: the position after the first 」 after qi; 0 for 名未尽
DuMing(w, qi) ==
  LET S == {j \in (qi + 1)..Len(w) : w[j] = "]"} IN
  IF S = {} THEN 0 ELSE MinOf(S) + 1

\* The branch __iter__ takes at i: a string literal, a character of 忽略符號,
\* a name, a keyword, data.
FenZhi(w, i) ==
  IF StartsWith(w, i, <<"[", "[">>) \/ w[i] = "<" THEN "yan"
  ELSE IF w[i] = "yi" THEN "hulue"
  ELSE IF w[i] = "[" THEN "ming"
  ELSE IF PiPeiGuanJianCi(w, i) # <<>> THEN "guanjian"
  ELSE "shuju"

\* if 數據起點 is not None: yield 符號("數據", ..)
ShuJuChu(fu, qi, i) ==
  IF qi = 0 THEN fu ELSE Append(fu, [lei |-> "shuju", ci |-> <<>>, zuo |-> qi, you |-> i])

Lexing == lguo = "run" /\ UNCHANGED <<varsRun, varsLower, varsIndex, varsCall, varsTry, varsImport, varsMacro, varsNum, neiRong, varsParse, varsName, varsScope, varsCol>>

\* The tokenizer is started on a source.
FenCi ==
  /\ lguo = "idle"
  /\ neiRong' \in UNION {[1..n -> {"nai", "de", "yi", "zhi", "shi", "bian", "ye", "x"}] : n \in 0..MaxYuan}
                  \cup UNION {[1..n -> {"[", "]", "<", ">", "x"}] : n \in 0..MaxYan}
  /\ lguo' = "run"
  /\ UNCHANGED <<varsRun, varsLower, varsIndex, varsCall, varsTry, varsImport, varsMacro, varsNum, suoYin, shuJuQi, fuLie, varsParse, varsName, varsScope, varsCol>>

\* 內容.startswith("「「", 索引) or 內容.startswith("『", 索引)
Yan ==
  /\ Lexing /\ suoYin <= Len(neiRong) /\ FenZhi(neiRong, suoYin) = "yan"
  /\ LET y == DuYan(neiRong, suoYin) IN
     IF y.you = 0
     THEN /\ fuLie' = ShuJuChu(fuLie, shuJuQi, suoYin)
          /\ lguo' = "yanweijin"
          /\ UNCHANGED suoYin
     ELSE /\ fuLie' = Append(ShuJuChu(fuLie, shuJuQi, suoYin),
                             [lei |-> "yan", ci |-> y.zhi, zuo |-> suoYin, you |-> y.you])
          /\ suoYin' = y.you
          /\ UNCHANGED lguo
  /\ shuJuQi' = 0

\* 字 == "「"
Ming ==
  /\ Lexing /\ suoYin <= Len(neiRong) /\ FenZhi(neiRong, suoYin) = "ming"
  /\ LET e == DuMing(neiRong, suoYin) IN
     IF e = 0
     THEN /\ fuLie' = ShuJuChu(fuLie, shuJuQi, suoYin)
          /\ lguo' = "mingweijin"
          /\ UNCHANGED suoYin
     ELSE /\ fuLie' = Append(ShuJuChu(fuLie, shuJuQi, suoYin),
                             [lei |-> "ming", ci |-> SubSeq(neiRong, suoYin + 1, e - 2),
                              zuo |-> suoYin, you |-> e])
          /\ suoYin' = e
          /\ UNCHANGED lguo
  /\ shuJuQi' = 0

\* 字 in 忽略符號
HuLue ==
  /\ Lexing /\ suoYin <= Len(neiRong) /\ FenZhi(neiRong, suoYin) = "hulue"
  /\ fuLie' = ShuJuChu(fuLie, shuJuQi, suoYin)
  /\ shuJuQi' = 0
  /\ suoYin' = suoYin + 1
  /\ UNCHANGED lguo

\* 關鍵 is not None: yield 符號(關鍵, None, slice(索引, 索引 + len(關鍵)))
GuanJian ==
  /\ Lexing /\ suoYin <= Len(neiRong) /\ FenZhi(neiRong, suoYin) = "guanjian"
  /\ LET ci == PiPeiGuanJianCi(neiRong, suoYin) IN
     /\ fuLie' = Append(ShuJuChu(fuLie, shuJuQi, suoYin),
                        [lei |-> "ci", ci |-> ci, zuo |-> suoYin, you |-> suoYin + Len(ci)])
     /\ suoYin' = suoYin + Len(ci)
  /\ shuJuQi' = 0
  /\ UNCHANGED lguo

\* no branch takes the character: it joins the data run
ShuJu ==
  /\ Lexing /\ suoYin <= Len(neiRong) /\ FenZhi(neiRong, suoYin) = "shuju"
  /\ shuJuQi' = IF shuJuQi = 0 THEN suoYin ELSE shuJuQi
  /\ suoYin' = suoYin + 1
  /\ UNCHANGED <<fuLie, lguo>>

\* the source is used up
JieShu ==
  /\ Lexing /\ suoYin > Len(neiRong)
  /\ fuLie' = ShuJuChu(fuLie, shuJuQi, suoYin)
  /\ shuJuQi' = 0
  /\ lguo' = "done"
  /\ UNCHANGED suoYin

NextLex ==
  \/ FenCi
  \/ Yan
  \/ Ming
  \/ HuLue
  \/ GuanJian
  \/ ShuJu
  \/ JieShu

\* ================================================= numerals
\* 漢字數字 on a run of integer numeral characters: "0" 零, "1" 一, "2" 二,
\* "S" 十, "B" 百, "W" 萬, "Y" 億, "-" 負.  Python integers have no bound: an
\* integer is the sequence of its decimal digits, lowest first, <<>> for 0.
MaxShuZi == 4      \* most characters of the numeral

\* 數字對照; the powers of ten of 小單位 and 大單位
ShuZiDuiZhao == [c \in {"0", "1", "2"} |-> IF c = "0" THEN 0 ELSE IF c = "1" THEN 1 ELSE 2]
DanWei == [c \in {"S", "B", "W", "Y"} |->
             IF c = "S" THEN 1 ELSE IF c = "B" THEN 2 ELSE IF c = "W" THEN 4 ELSE 8]

\* a + b (+ carry), and a * 10^k
RECURSIVE Jia(_, _, _)
Jia(a, b, c) ==
  IF a = <<>> /\ b = <<>> THEN (IF c = 0 THEN <<>> ELSE <<c>>)
  ELSE LET x == (IF a = <<>> THEN 0 ELSE Head(a)) + (IF b = <<>> THEN 0 ELSE Head(b)) + c
       IN <<x % 10>> \o Jia(IF a = <<>> THEN a ELSE Tail(a), IF b = <<>> THEN b ELSE Tail(b), x \div 10)
Cheng(a, k) == IF a = <<>> THEN <<>> ELSE [i \in 1..k |-> 0] \o a
\* int(數字字串) of a run of digits, first character first
RECURSIVE ZhengOf(_)
ZhengOf(s) ==
  IF s = <<>> THEN <<>>
  ELSE LET r == ZhengOf(Tail(s)) d == ShuZiDuiZhao[Head(s)] IN
       IF d = 0 THEN r ELSE Jia(r, Cheng(<<d>>, Len(s) - 1), 0)

\* the for loop of 解析整數 from the character i on
RECURSIVE JieXiXun(_, _, _)
JieXiXun(s, i, st) ==
  IF i > Len(s)
  THEN Jia(Jia(st.zong, st.jie, 0), IF st.you THEN ZhengOf(<<st.dang>>) ELSE <<>>, 0)
  ELSE IF s[i] \in DOMAIN ShuZiDuiZhao
  THEN JieXiXun(s, i + 1, [st EXCEPT !.dang = s[i], !.you = TRUE])
  ELSE IF s[i] \in {"S", "B"}
  THEN JieXiXun(s, i + 1, [st EXCEPT
         !.jie = Jia(@, Cheng(IF st.you THEN ZhengOf(<<st.dang>>) ELSE <<1>>, DanWei[s[i]]), 0),
         !.dang = "0", !.you = FALSE])
  ELSE LET jie == IF ~st.you /\ st.jie = <<>> THEN <<1>>
                  ELSE Jia(st.jie, ZhengOf(<<st.dang>>), 0)
       IN JieXiXun(s, i + 1, [zong |-> Jia(st.zong, Cheng(jie, DanWei[s[i]]), 0),
                               jie |-> <<>>, dang |-> "0", you |-> FALSE])
\* 解析整數
JieXiZhengShu(s) ==
  IF \A k \in DOMAIN s : s[k] \in DOMAIN ShuZiDuiZhao THEN ZhengOf(s)
  ELSE JieXiXun(s, 1, [zong |-> <<>>, jie |-> <<>>, dang |-> "0", you |-> FALSE])

\* 漢字數字: the fault, or the sign and the digits of the string returned,
\* first character first (str of the integer)
HanZiShuZi(s) ==
  LET fu == s # <<>> /\ Head(s) = "-"
      t == IF fu THEN Tail(s) ELSE s
      n == JieXiZhengShu(t)
  IN IF t = <<>> \/ \E k \in DOMAIN t : t[k] = "-" THEN [huo |-> TRUE, fu |-> FALSE, wei |-> <<>>]
     ELSE [huo |-> FALSE, fu |-> fu,
           wei |-> IF n = <<>> THEN <<0>> ELSE [k \in 1..Len(n) |-> n[Len(n) + 1 - k]]]

\* 漢字數字 is called on a numeral and returns or raises.
JieShuZi ==
  /\ ~shuZi.jiao
  /\ \E s \in UNION {[1..n -> {"0", "1", "2", "S", "B", "W", "Y", "-"}] : n \in 0..MaxShuZi} :
       shuZi' = [jiao |-> TRUE, ru |-> s, chu |-> HanZiShuZi(s)]
  /\ UNCHANGED <<varsRun, varsLower, varsIndex, varsCall, varsTry, varsImport, varsMacro, varsLex, varsParse, varsName, varsScope, varsCol>>

NextNum ==
  \/ JieShuZi

\* ================================================= parser
\* 文法分析器 on the tokens of a source without macros and imports (擴展宏
\* returns such a source unchanged).  A token is [lei, zuo, you]: its class
\* and its span, 位置.start and 位置.stop, counted from 0.  The classes: "xi"
\* 昔之, "ming" a name, "zhe" 者, "jin" 今, "shu" the number 一, "bufu"
\* 不復存矣, "shiye" 是也, "shiyi" 是矣, "ye" 也, "shuzhi" 書之, "ruo" 若其然者,
\* "ruofei" 若非, "yunyun" 云云, "wuyou" 吾有, "shuT" 術, "mingzhi" 名之曰,
\* "shishu" 是術曰, "shiwei" 是謂, "zhishuye" 之術也.  The statements of the
\* 程式 are kept in one list, a block before the statements inside it; fu is
\* the place of the enclosing statement in the list, 0 at the top.
MaxJu == 4         \* most phrases of the source
ChuangKou == 64    \* 止 = min(len(self.符號列), 探 + 64)

\* the phrases a source is made of, and the characters of a token
DuanYu ==
  { <<"xi", "ming", "zhe", "jin", "shu">>, <<"xi", "ming", "zhe", "jin", "bufu">>,
    <<"shiye">>, <<"shiyi">>, <<"ye">>, <<"shuzhi">>, <<"ruo">>, <<"ruofei">>, <<"yunyun">>,
    <<"wuyou", "shu", "shuT", "mingzhi", "ming">>, <<"shishu">>,
    <<"shiwei", "ming", "zhishuye">> }
KuanDu(c) ==
  IF c \in {"zhe", "jin", "shu", "ye", "shuT"} THEN 1
  ELSE IF c \in {"xi", "shiye", "shiyi", "shuzhi", "ruofei", "yunyun", "wuyou", "shiwei"} THEN 2
  ELSE IF c \in {"ming", "mingzhi", "shishu", "zhishuye"} THEN 3
  ELSE 4
\* list(詞法分析器(內容, 文檔名)) of the phrases ps written one after another
RECURSIVE FuHaoLie(_, _)
FuHaoLie(cs, qi) ==
  IF cs = <<>> THEN <<>>
  ELSE <<[lei |-> Head(cs), zuo |-> qi, you |-> qi + KuanDu(Head(cs))]>>
       \o FuHaoLie(Tail(cs), qi + KuanDu(Head(cs)))
RECURSIVE Lian(_)
Lian(ps) == IF ps = <<>> THEN <<>> ELSE Head(ps) \o Lian(Tail(ps))

\* _看 (a token of the class "wu" for None), _取, _期, 文法之禍
Kan(st) == IF st.i > Len(st.fu) THEN [lei |-> "wu", zuo |-> 0, you |-> 0] ELSE st.fu[st.i]
Huo(st) == [st EXCEPT !.huo = TRUE]
QuFu(st) == IF st.huo \/ st.i > Len(st.fu) THEN Huo(st) ELSE [st EXCEPT !.i = @ + 1]
QiFu(st, c) == IF Kan(st).lei = c THEN QuFu(st) ELSE Huo(st)
\* self.符號列[self._索引 - 1].位置.stop
ShangYou(st) == st.fu[st.i - 1].you
\* a statement joins the list
JiaJu(st, lei, zuo, you, p) ==
  [st EXCEPT !.ju = Append(@, [lei |-> lei, zuo |-> zuo, you |-> you, fu |-> p])]

\* _可視為區塊終止後繼
KeShiWeiZhongZhi_never(f) == FALSE
KeShiWeiZhongZhi(f) ==
  f.lei \notin {"wu", "ye", "yunyun", "ruofei", "huoruo", "shiwei", "naide", "naideyi",
                "naiguikongwu", "rushibuxie", "qi", "buzhihehuo", "naizuoba"}
\* self.符號列.insert(self._索引, 符號("也", None, 是也符.位置))
ChaYe(st, f) ==
  IF KeShiWeiZhongZhi(Kan(st))
  THEN [st EXCEPT !.fu = SubSeq(@, 1, st.i - 1) \o <<[lei |-> "ye", zuo |-> f.zuo, you |-> f.you]>>
                           \o SubSeq(@, st.i, Len(@))]
  ELSE st

\* _是術定義起始
ShiShuDingYiQiShi(st) ==
  /\ st.i + 2 <= Len(st.fu)
  /\ st.fu[st.i].lei = "wuyou" /\ st.fu[st.i + 1].lei = "shu" /\ st.fu[st.i + 2].lei = "shuT"
  /\ \E k \in (st.i + 3)..(st.i + 2 + ChuangKou) :
       k <= Len(st.fu) /\ st.fu[k].lei \in {"shishu", "naixingshishu"}

\* _解析宣告句: 吾有, 數量, 型別詞, then 名之曰 and a name if they are there
JieXiXuanGao(st, p) ==
  LET s3 == QiFu(QiFu(QuFu(st), "shu"), "shuT")
      s4 == IF Kan(s3).lei = "mingzhi" THEN QiFu(QuFu(s3), "ming") ELSE s3
  IN IF s4.huo THEN s4 ELSE JiaJu(s4, "xuangao", Kan(st).zuo, ShangYou(s4), p)

\* _解析昔今句
JieXiXiJin(st, p) ==
  LET s4 == QiFu(QiFu(QiFu(QiFu(st, "xi"), "ming"), "zhe"), "jin")
      s5 == IF Kan(s4).lei \in {"bufu", "ming", "shu"} THEN QuFu(s4) ELSE Huo(s4)
      f == Kan(s5)
      s6 == IF f.lei = "shiye" THEN ChaYe(QuFu(s5), f)
            ELSE IF f.lei = "shiyi" /\ Kan(s4).lei # "bufu" THEN QuFu(s5)
            ELSE IF f.lei = "ye" /\ Kan(s4).lei # "bufu" THEN QuFu(s5)
            ELSE s5
      zhong == IF f.lei = "shiye" \/ s6.i # s5.i THEN f.you ELSE ShangYou(s5)
  IN IF s6.huo THEN s6 ELSE JiaJu(s6, "xijin", Kan(st).zuo, zhong, p)

\* the end of a block no closer ends: 開.位置.stop, or the end of its last
\* statement
WeiJu(st, n) ==
  LET zi == {k \in DOMAIN st.ju : st.ju[k].fu = n}
  IN IF zi = {} THEN st.ju[n].zuo + KuanDu("ruo")
     ELSE st.ju[CHOOSE k \in zi : \A m \in zi : m <= k].you

RECURSIVE JieXiYuJuLie(_, _, _)
RECURSIVE JieXiYuJu(_, _)

\* _解析若句 at 若其然者
JieXiRuo(st, p) ==
  LET n == Len(st.ju) + 1
      s1 == JiaJu(QuFu(st), "ruo", Kan(st).zuo, Kan(st).zuo, p)
      s2 == JieXiYuJuLie(s1, {"huoruo", "ruofei", "yunyun", "ye", "shiwei"}, n)
      s3 == IF Kan(s2).lei = "ruofei"
            THEN JieXiYuJuLie(QuFu(s2), {"yunyun", "ye", "shiwei"}, n)
            ELSE s2
      f == Kan(s3)
  IN IF s3.huo THEN s3
     ELSE IF f.lei \in {"yunyun", "ye"} THEN [QuFu(s3) EXCEPT !.ju[n].you = f.you]
     ELSE IF f.lei \in {"wu", "shiwei"} THEN [s3 EXCEPT !.ju[n].you = WeiJu(s3, n)]
     ELSE Huo(s3)

\* _解析術定義句
JieXiShuDingYi(st, p) ==
  LET n == Len(st.ju) + 1
      s5 == QiFu(QiFu(QiFu(QiFu(QuFu(st), "shu"), "shuT"), "mingzhi"), "ming")
      s6 == JiaJu(QiFu(s5, "shishu"), "shu", Kan(st).zuo, Kan(st).zuo, p)
      s7 == JieXiYuJuLie(s6, {"shiwei"}, n)
      s8 == QiFu(QiFu(QiFu(s7, "shiwei"), "ming"), "zhishuye")
  IN IF s5.huo \/ Kan(s5).lei # "shishu" THEN Huo(st)
     ELSE IF s8.huo THEN s8
     ELSE [s8 EXCEPT !.ju[n].you = ShangYou(s8)]

\* _解析語句
JieXiYuJu(st, p) ==
  LET f == Kan(st) IN
  IF f.lei = "wuyou"
  THEN (IF ShiShuDingYiQiShi(st) THEN JieXiShuDingYi(st, p) ELSE JieXiXuanGao(st, p))
  ELSE IF f.lei = "shuzhi" THEN JiaJu(QuFu(st), "shuzhi", f.zuo, f.you, p)
  ELSE IF f.lei = "xi" THEN JieXiXiJin(st, p)
  ELSE IF f.lei = "ruo" THEN JieXiRuo(st, p)
  ELSE IF f.lei = "ye" THEN JiaJu(QuFu(st), "zhushi", f.zuo, f.you, p)
  ELSE Huo(st)

\* _解析語句列
JieXiYuJuLie(st, zhong, p) ==
  IF st.huo \/ st.i > Len(st.fu) \/ Kan(st).lei \in zhong THEN st
  ELSE JieXiYuJuLie(JieXiYuJu(st, p), zhong, p)

\* 文法分析器(內容).解析程式() on a source: the tokens, the token list the
\* parser is left with, and the statements or 文法之禍.
JieXiChengShi ==
  /\ pguo = "idle"
  /\ \E ps \in UNION {[1..n -> DuanYu] : n \in 0..MaxJu} :
       LET fs == FuHaoLie(Lian(ps), 0)
           r == JieXiYuJuLie([fu |-> fs, i |-> 1, ju |-> <<>>, huo |-> FALSE], {}, 0)
       IN /\ yuanFu' = fs
          /\ fuHao' = r.fu
          /\ chengJu' = r.ju
          /\ pguo' = IF r.huo THEN "huo" ELSE "done"
  /\ UNCHANGED <<varsRun, varsLower, varsIndex, varsCall, varsTry, varsImport, varsMacro, varsLex, varsNum, varsName, varsScope, varsCol>>

NextParse ==
  \/ JieXiChengShi

\* ================================================= internal names
\* The names _新內部名 makes while a main file "R" that imports the module
\* "A" in its first statement is compiled, by 編譯為PythonAST with a new
\* 編譯環境, in some Python process.  hash() of a str is drawn anew by every
\* Python process: a process is the value hash() has there for the two file
\* keys.  A name __{前綴}{內部前綴}_{內部序} is [qian, zhui, xu].
MaxNei == 2        \* most names the lowering of one file asks for
MaxBian == 2       \* most compilations, and most processes
MaxGao == 1        \* hash values reach MaxGao * 65536 + MaxDi, either sign
MaxDi == 1
YanMa == 65536     \* & 0xFFFF

WenDang == {"R", "A"}
HaXiZhi == {s * (g * YanMa + d) : s \in {-1, 1}, g \in 0..MaxGao, d \in 0..MaxDi}
\* the 前綴 of the calls of _新內部名 in the lowering of a file: "bian" 遍,
\* "huo" 禍
QianLie == UNION {[1..n -> {"bian", "huo"}] : n \in 0..MaxNei}

\* PythonAST轉譯器.__init__: f"{abs(hash(檔鑰)) & 0xFFFF:x}"
NeiBuQianZhui(h) == (IF h < 0 THEN -h ELSE h) % YanMa
\* _新內部名 when _內部序 is xu
XinNeiBuMing(qian, nqz, xu) == [qian |-> qian, zhui |-> nqz, xu |-> xu + 1]
\* the names of one PythonAST轉譯器, made for the file d where hash is h
ZhuanYiMing(d, h) ==
  [k \in 1..Len(nti.wen[d]) |-> XinNeiBuMing(nti.wen[d][k], NeiBuQianZhui(h[d]), k - 1)]

\* A program is written.
XuanTi ==
  /\ ~nti.xuan
  /\ \E f \in [WenDang -> QianLie] : nti' = [xuan |-> TRUE, wen |-> f]
  /\ UNCHANGED <<varsRun, varsLower, varsIndex, varsCall, varsTry, varsImport, varsMacro, varsLex, varsNum, varsParse, jinCheng, yiLie, varsScope, varsCol>>

\* A Python process starts.
QiDong ==
  /\ nti.xuan /\ Len(jinCheng) < MaxBian /\ Len(jinCheng) <= Len(yiLie)
  /\ \E h \in [WenDang -> HaXiZhi] : jinCheng' = Append(jinCheng, h)
  /\ UNCHANGED <<varsRun, varsLower, varsIndex, varsCall, varsTry, varsImport, varsMacro, varsLex, varsNum, varsParse, nti, yiLie, varsScope, varsCol>>

\* 編譯為PythonAST in the process started last: _轉匯入句 makes a
\* PythonAST轉譯器 for the module and its statements come first.
FanYi ==
  /\ jinCheng # <<>> /\ Len(yiLie) < MaxBian
  /\ LET h == jinCheng[Len(jinCheng)] IN
     yiLie' = Append(yiLie, [jin |-> Len(jinCheng), ming |-> ZhuanYiMing("A", h) \o ZhuanYiMing("R", h)])
  /\ UNCHANGED <<varsRun, varsLower, varsIndex, varsCall, varsTry, varsImport, varsMacro, varsLex, varsNum, varsParse, nti, jinCheng, varsScope, varsCol>>

NextName ==
  \/ XuanTi
  \/ QiDong
  \/ FanYi

\* ================================================= scope analysis
\* _分析作用域 on the statements of a program: a procedure P in the top
\* level and a procedure Q in the body of P, each with at most one
\* parameter, a statement before and one in a 若 block in each body, one
\* statement before P.  A statement is [lei, ming, biao, can, ti]: "xuangao"
\* 宣告句 of the name ming, "xijin" 昔今句 to ming (biao: with 左下標), "ruo"
\* 若句 with the statements ti, "shu" 術定義句 of ming with the parameters can
\* and the body ti.  Names are numbers.
MaxMingShu == 2    \* the names 1..MaxMingShu are declared and assigned

MingShu == 1..MaxMingShu
PMing == MaxMingShu + 1
QMing == MaxMingShu + 2
Ju(lei, ming, biao, can, ti) == [lei |-> lei, ming |-> ming, biao |-> biao, can |-> can, ti |-> ti]
\* no statement, or one declaration or assignment
CaoLie ==
  {<<>>} \cup {<<Ju("xuangao", n, FALSE, <<>>, <<>>)>> : n \in MingShu}
         \cup {<<Ju("xijin", n, b, <<>>, <<>>)>> : n \in MingShu, b \in BOOLEAN}
CanLie == {<<>>} \cup {<<n>> : n \in MingShu}

\* 收集(列, 節點): the _作用域節點 are kept in one list, the root first; fu is
\* the place of 父 (0 for None), shu the name of 術節 (0 for None)
RECURSIVE ShouJi(_, _, _)
ShouJi(js, n, jd) ==
  IF js = <<>> THEN jd
  ELSE LET s == Head(js) IN
       ShouJi(Tail(js), n,
         IF s.lei = "xuangao" THEN [jd EXCEPT ![n].bendi = @ \cup {s.ming}]
         ELSE IF s.lei = "ruo" THEN ShouJi(s.ti, n, jd)
         ELSE IF s.lei = "shu"
         THEN ShouJi(s.ti, Len(jd) + 1,
                Append([jd EXCEPT ![n].bendi = @ \cup {s.ming}],
                       [fu |-> n, bendi |-> {s.can[k] : k \in DOMAIN s.can}, fuzhi |-> {},
                        shu |-> s.ming]))
         ELSE IF ~s.biao THEN [jd EXCEPT ![n].fuzhi = @ \cup {s.ming}]
         ELSE jd)

\* the while loop of 計算: the scopes from 父 outwards, "feiqu" if the first
\* one that has the name in 本地 is a procedure, "quanyu" if it is the root
\* or there is none
ZhaoFu_root(jd, p, m) == "quanyu"
RECURSIVE ZhaoFu(_, _, _)
ZhaoFu(jd, p, m) ==
  IF p = 0 THEN "quanyu"
  ELSE IF m \in jd[p].bendi THEN (IF jd[p].shu = 0 THEN "quanyu" ELSE "feiqu")
  ELSE ZhaoFu(jd, jd[p].fu, m)

\* 計算: 作用域資訊(全域, 非區) of every procedure
JiSuan(jd) ==
  [k \in 2..Len(jd) |->
     LET wai == jd[k].fuzhi \ jd[k].bendi IN
     [shu |-> jd[k].shu,
      quanyu |-> {m \in wai : ZhaoFu(jd, jd[k].fu, m) = "quanyu"},
      feiqu |-> {m \in wai : ZhaoFu(jd, jd[k].fu, m) = "feiqu"}]]

\* _分析作用域 is called on the statements of a program.
FenXiZuoYongYu ==
  /\ ~zuoYong.jiao
  /\ \E s0, s1, b1, s2, b2 \in CaoLie : \E cp, cq \in CanLie :
       LET q == Ju("shu", QMing, FALSE, cq, s2 \o <<Ju("ruo", 0, FALSE, <<>>, b2)>>)
           p == Ju("shu", PMing, FALSE, cp, s1 \o <<Ju("ruo", 0, FALSE, <<>>, b1), q>>)
           js == s0 \o <<p>>
           gen == [fu |-> 0, bendi |-> {}, fuzhi |-> {}, shu |-> 0]
       IN zuoYong' = [jiao |-> TRUE, ju |-> js, jie |-> JiSuan(ShouJi(js, 1, <<gen>>))]
  /\ UNCHANGED <<varsRun, varsLower, varsIndex, varsCall, varsTry, varsImport, varsMacro, varsLex, varsNum, varsParse, varsName, varsCol>>

NextScope ==
  \/ FenXiZuoYongYu

\* ================================================= list formatter
\* __文言格式列 on a list of at most 列上限 elements whose rendered items
\* are one of a characters and others of b characters each, at the
\* indentation of a list nested c lists deep.
MaxChang == 8      \* most characters of a rendered item
MaxXiang == 64     \* most items of the list
MaxCeng == 36      \* deepest nesting
DuanHangKuan == 80 \* 斷行寬
JinCouDu == 3      \* 緊湊度
LanJi == 15        \* the last operand of min() in 欄數

\* the loop over 資料長: 總長 and 最長
RECURSIVE TongJi(_, _)
TongJi(cs, t) ==
  IF cs = <<>> THEN t
  ELSE TongJi(Tail(cs), [zong |-> t.zong + Head(cs) + 2,
                         zui |-> IF Head(cs) > t.zui THEN Head(cs) ELSE t.zui])

\* round((2.5 * 估欄寬 * 可分組項數) ** 0.5 / 估欄寬) >= k for k >= 1, where
\* 估欄寬 = max(欄寬 - 3 - 偏置, 1) and 偏置 ** 2 = 欄寬 - 總長 / n: the
\* quotient is above k - 1/2, or equal to it and k is even (round() goes to
\* the even neighbour), in integers
GuLanZhiShao(k, n, zong, w) ==
  LET a == w - 3
      d == w * n - zong
      m == (2 * k - 1) * (2 * k - 1)
      r == a * m - 10 * n
  IN IF a <= 1 \/ (a - 1) * (a - 1) * n <= d
     THEN 10 * n > m \/ (10 * n = m /\ k % 2 = 0)
     ELSE r < 0 \/ d * m * m > n * r * r \/ (d * m * m = n * r * r /\ k % 2 = 0)
\* the other operands of min() in 欄數
ShangXian_kuan(suoPai, w) == (DuanHangKuan - suoPai) \div w
ShangXian(suoPai, w) ==
  MinOf({(DuanHangKuan - suoPai) \div (IF w > 1 THEN w ELSE 1), JinCouDu * 4, LanJi})
\* 欄數: the round() operand counts up to the other operands
LanShu(n, zong, w, suoPai) ==
  LET shang == ShangXian(suoPai, w)
      ks == {k \in 1..shang : \A j \in 1..k : GuLanZhiShao(j, n, zong, w)}
  IN IF ks = {} THEN 0 ELSE CHOOSE k \in ks : \A j \in ks : j <= k

\* __文言分組列元素 up to 欄數: "dan" when the items are returned before a
\* column count is made
FenZuLieYuanSu(cs, suoPai) ==
  LET t == TongJi(cs, [zong |-> 0, zui |-> 0])
      w == t.zui + 2
  IN IF ~(w * 3 + suoPai < DuanHangKuan /\ (t.zong > 5 * w \/ t.zui <= 6))
     THEN [zu |-> "dan", lan |-> 0]
     ELSE [zu |-> "lan", lan |-> LanShu(Len(cs), t.zong, w, suoPai)]

\* __文言格式列 is called on a list: 分組 only for more than 6 items.
GeShiLie ==
  /\ ~geShi.jiao
  /\ \E a, b \in 1..MaxChang : \E n \in 1..MaxXiang : \E c \in 0..MaxCeng :
       LET cs == [i \in 1..n |-> IF i = 1 THEN a ELSE b] IN
       geShi' = [jiao |-> TRUE, chang |-> cs, suo |-> 2 * c,
                 jie |-> IF n > 6 THEN FenZuLieYuanSu(cs, 2 * c) ELSE [zu |-> "bu", lan |-> 0]]
  /\ UNCHANGED <<varsRun, varsLower, varsIndex, varsCall, varsTry, varsImport, varsMacro, varsLex, varsNum, varsParse, varsName, varsScope>>

NextCol ==
  \/ GeShiLie

\* The state before the first statement: an empty __暫存 and __文言負索, a
\* new PythonAST轉譯器 with no take pending.
Init ==
  /\ heap = [i \in StackIds |-> <<>>]
  /\ cur = 1
  /\ frames = <<>>
  /\ raising = "no"
  /\ halted = FALSE
  /\ ev = [op |-> "init"]
  /\ steps = 0
  /\ daiQuShu = WuQu
  /\ daiQuQiYu = FALSE
  /\ ctx = <<>>
  /\ huo = "none"
  /\ wan = FALSE
  /\ lev = [op |-> "init"]
  /\ lie = <<>>
  /\ fuSuo = [k \in NegIdx |-> Absent]
  /\ izhan = <<>>
  /\ iev = [op |-> "init", step |-> 0]
  /\ shuZhi = WuZhi
  /\ yiCan = <<>>
  /\ hlog = <<>>
  /\ hev = [op |-> "init"]
  /\ shiZhan = <<>>
  /\ huoMing = "none"
  /\ tev = [op |-> "init"]
  /\ wenJian = [m \in MoZu |-> <<>>]
  /\ huanJing = [hongKuai |-> {}, hongZhong |-> {}, yuanKuai |-> {},
                 bianZhong |-> {}, yiZai |-> {}, moKuai |-> [m \in MoZu |-> <<>>]]
  /\ diaoZhan = <<>>
  /\ guo = "idle"
  /\ chengXu = <<>>
  /\ zhang = [m \in MoZu |-> [du |-> 0, xi |-> 0, fan |-> <<>>]]
  /\ hongLie = <<>>
  /\ wen = <<>>
  /\ hi = 1
  /\ qiShi = 1
  /\ mguo = "idle"
  /\ zhui = <<>>
  /\ neiRong = <<>>
  /\ suoYin = 1
  /\ shuJuQi = 0
  /\ fuLie = <<>>
  /\ lguo = "idle"
  /\ shuZi = [jiao |-> FALSE, ru |-> <<>>, chu |-> [huo |-> TRUE, fu |-> FALSE, wei |-> <<>>]]
  /\ mev = [op |-> "init", ti |-> FALSE, tiao |-> FALSE, ou |-> FALSE]
  /\ yuanFu = <<>>
  /\ fuHao = <<>>
  /\ chengJu = <<>>
  /\ pguo = "idle"
  /\ nti = [xuan |-> FALSE, wen |-> [d \in {"R", "A"} |-> <<>>]]
  /\ jinCheng = <<>>
  /\ yiLie = <<>>
  /\ zuoYong = [jiao |-> FALSE, ju |-> <<>>, jie |-> <<>>]
  /\ geShi = [jiao |-> FALSE, chang |-> <<>>, suo |-> 0, jie |-> [zu |-> "bu", lan |-> 0]]

Spec == Init /\ [][NextRun]_vars
SpecLower == Init /\ [][NextLower]_vars
SpecIndex == Init /\ [][NextIndex]_vars
SpecCall == Init /\ [][NextCall]_vars
SpecTry == Init /\ [][NextTry]_vars
SpecImport == Init /\ [][NextImport]_vars
SpecMacro == Init /\ [][NextMacro]_vars
SpecLex == Init /\ [][NextLex]_vars
SpecNum == Init /\ [][NextNum]_vars
SpecParse == Init /\ [][NextParse]_vars
SpecName == Init /\ [][NextName]_vars
SpecScope == Init /\ [][NextScope]_vars
SpecCol == Init /\ [][NextCol]_vars
\* The compiler is one sequential run: a step that can be taken is taken.
SpecImportLive == SpecImport /\ WF_vars(NextImport)
\* 擴展宏 is one sequential run as well.
SpecMacroLive == SpecMacro /\ WF_vars(NextMacro)

\* ================================================================ claims
CallOps == {"shi", "qu", "quqiyu"}
TopOf(s) == IF s = <<>> THEN None ELSE s[Len(s)]

\* C1: every procedure body runs on a fresh list that is empty at entry, the
\* caller's list is out of the body's reach and keeps the contents the caller
\* left on it, and on every exit of the body (乃得, 乃得矣, 乃歸空無, the end of
\* the body, a 文言之禍 or a host exception leaving it) __暫存 is again that
\* very list, holding what it held at entry and nothing the body pushed
\* (a completed call adds only the returned value).
C1_StackRestored ==
  /\ \A i \in CallFrames : /\ frames[i].saved # cur
                           /\ heap[frames[i].saved] = frames[i].entry
  /\ (ev.op \in CallOps /\ ev.ran = "body") =>
        /\ heap[cur] = <<>>
        /\ frames[Len(frames)].saved = ev.info.saved
        /\ heap[ev.info.saved] = ev.before
  /\ ev.op = "unwind" => cur = ev.saved /\ heap[cur] = ev.entry
  /\ ev.op = "return" =>
        /\ cur = ev.saved
        /\ SubSeq(heap[cur], 1, Len(ev.entry)) = ev.entry
        /\ Len(heap[cur]) = Len(ev.entry) + (IF ev.done THEN 1 ELSE 0)
  /\ ev.op = "chain" => heap[ev.saved] = ev.entry /\ heap[cur] = <<>>

\* C1 witness: a fault leaves a body that had pushed values, below it a caller
\* that had left values on its stack.
C1_Witness ==
  /\ ev.op = "unwind" /\ raising = "user"
  /\ ev.entry # <<>> /\ ev.body # <<>>
  /\ heap[cur] = ev.entry

\* C2 as stated: a call whose body returned without a value (乃歸空無, end of
\* the body) leaves the caller's stack as it was before the call.
C2_Original ==
  (ev.op = "return" /\ ev.done) =>
     heap[cur] = IF ReturnsValue(ev.kind) THEN Append(ev.entry, ev.ret) ELSE ev.entry

\* C2 (amended): after a completed call through 施 or 以施 the stack is the
\* stack before the call plus exactly one top element: the value given to 乃得,
\* the former top of the body's stack for 乃得矣 (null if that stack was
\* empty), null when the body returned without a value, and the continuation
\* when fewer arguments than fixed parameters were supplied.
C2_CallPushesOne ==
  /\ (ev.op = "return" /\ ev.done) =>
        /\ heap[cur] = Append(ev.entry, ev.ret)
        /\ ev.kind \in {"naideyi", "naideqi"} => ev.ret = TopOf(ev.body)
        /\ ev.kind = "naide" => ev.ret \in PushVals
        /\ ~ReturnsValue(ev.kind) => ev.ret = None
  /\ (ev.op \in CallOps /\ ev.ran = "partial") => heap[cur] = Append(ev.before, "fn")

\* C2 witness: 乃得矣 in a body whose stack held two values, called from a
\* caller with a value on its stack.
C2_Witness ==
  /\ ev.op = "return" /\ ev.done /\ ev.kind = "naideyi"
  /\ Len(ev.body) = 2 /\ ev.entry # <<>>
  /\ heap[cur] = Append(ev.entry, ev.body[2])

NoPush == \/ ev.op \in {"shuzhi", "yi", "mingzhi"}
          \/ (ev.op = "xuangao" /\ ev.pushed = 0)

\* C4 as stated: at top level the stack is empty after 書之 and after every
\* statement that does not push.
C4_Original == (frames = <<>> /\ NoPush) => heap[cur] = <<>>

\* C4 (amended): the stack is empty right after every 書之, which hands all
\* values of the stack to the output in push order; a statement that pushes
\* nothing does not empty it: a declaration whose names take all its values
\* leaves the stack exactly as it was.
C4_PrintClears ==
  /\ ev.op = "shuzhi" => heap[cur] = <<>> /\ ev.out = ev.before
  /\ (ev.op = "xuangao" /\ ev.pushed = 0) => heap[cur] = ev.before

\* C4 witness: 書之 on a stack of two different values.
C4_Witness ==
  /\ ev.op = "shuzhi" /\ Len(ev.before) = 2 /\ ev.before[1] # ev.before[2]
  /\ ev.out = ev.before /\ heap[cur] = <<>>

\* C5: 名之曰 with k names on a stack of n >= k values removes exactly the top
\* k values; the assignments run from the rightmost name, which receives the
\* former top, to the leftmost; the values below are untouched.
C5_MingZhi ==
  (ev.op = "mingzhi" /\ Len(ev.before) >= Len(ev.names)) =>
     LET k == Len(ev.names)
         n == Len(ev.before)
     IN /\ ev.ok /\ raising = "no"
        /\ heap[cur] = SubSeq(ev.before, 1, n - k)
        /\ Len(ev.log) = k
        /\ \A i \in 1..k :
             ev.log[k + 1 - i] = [name |-> ev.names[i], val |-> ev.before[n - k + i]]

\* C5 witness: two different names take two different values off a stack
\* that holds a third value below them.
C5_Witness ==
  /\ ev.op = "mingzhi" /\ Len(ev.names) = 2 /\ ev.names[1] # ev.names[2]
  /\ Len(ev.before) = 3 /\ ev.before[2] # ev.before[3]
  /\ heap[cur] = <<ev.before[1]>>

TakeShort == ev.op = "qu" /\ ev.info.n > Len(ev.info.stack)
TakeRestEmpty == ev.op = "quqiyu" /\ ev.info.stack = <<>>

\* C8 as stated: 取 n with fewer than n values, and 取其餘 on an empty stack,
\* raise 虛指 without calling f and without changing the stack.
C8_Original ==
  (TakeShort \/ TakeRestEmpty) =>
     /\ raising = "xuzhi" /\ ev.ran = "no"
     /\ Len(frames) = ev.info.depth /\ heap[cur] = ev.info.stack

\* C8 (amended): 取 n 以施 f on a stack of fewer than n values raises the
\* 文言之禍 named 虛指, does not call f and leaves the stack as it was; 取其餘
\* 以施 f on an empty stack raises nothing and calls f with no arguments.
C8_Take ==
  /\ TakeShort =>
        /\ raising = "xuzhi" /\ ev.ran = "no"
        /\ Len(frames) = ev.info.depth /\ heap[cur] = ev.info.stack
  /\ TakeRestEmpty =>
        /\ raising = "no" /\ ev.ran \in {"body", "partial"} /\ ev.info.n = 0

\* C8 witness: 取 2 on a stack holding one value.
C8_Witness ==
  /\ TakeShort /\ ev.info.n = 2 /\ Len(ev.info.stack) = 1
  /\ raising = "xuzhi" /\ heap[cur] = ev.info.stack

\* ------------------------------------------------------------------ C3
SetOps == {"zhiwu", "xijin", "xijinqi"}

\* C3: a statement that uses 其 once as an index evaluates it once: 其 yields
\* the value that was on top of the stack and leaves the stack empty whatever
\* its depth.  After 夫「列」之其 the stack holds exactly the element the former
\* top indexes; after 昔之「列」之其者今 v the stack is empty, the element the
\* former top indexes is v and every other index reads as before.
C3_QiOnce ==
  /\ iev.op = "fuzhiqi" =>
       izhan = <<QuWu(iev.lie, iev.suo, ZhuanZheng(TopOf(iev.zhan)))>>
  /\ iev.op = "xijinqi" =>
       LET k == ZhuanZheng(TopOf(iev.zhan)) IN
         /\ izhan = <<>>
         /\ QuWu(lie, fuSuo, k) = iev.v
         /\ \A j \in (MinIdx..MaxLen) \ {k} :
              QuWu(lie, fuSuo, j) = QuWu(iev.lie, iev.suo, j)

\* 夫「列」之其 with two values on the stack, the top one being 2: the stack
\* is left holding the list's second element only.
C3_Witness ==
  /\ iev.op = "fuzhiqi"
  /\ Len(iev.zhan) = 2
  /\ TopOf(iev.zhan) = "n2"
  /\ Len(lie) >= 2
  /\ izhan = <<lie[2]>>

\* ------------------------------------------------------------------ C6
\* C6 as stated: while a take is pending, every statement other than 以施 is
\* refused with 取後需以施.
C6_Original ==
  (lev.op \notin {"init", "yishi", "end"} /\ lev.pend) => huo = "QuHouXuYiShi"

\* C6: while a take is pending, 以施, another 取 / 取其餘 (which replaces the
\* pending take), a comment and a macro are accepted, and a comment or macro
\* leaves the take pending; any other statement is refused with 取後需以施; a
\* statement list that ends with the take pending is refused with 取後未以施.
\* 取後需以施 is raised in no other case.
C6_PendingTake ==
  /\ (lev.op # "init" /\ lev.pend) =>
       /\ lev.op \in {"fu", "block", "proc"} => huo = "QuHouXuYiShi"
       /\ lev.op = "end" => huo = "QuHouWeiYiShi"
       /\ lev.op \in {"qu", "quqiyu", "zhushi", "hong", "yishi"} => huo = "none"
       /\ lev.op \in {"zhushi", "hong"} =>
            daiQuShu = lev.shu /\ daiQuQiYu = lev.qiyu
       /\ lev.op = "qu" => daiQuShu = lev.n /\ ~daiQuQiYu
       /\ lev.op = "quqiyu" => daiQuShu = WuQu /\ daiQuQiYu
  /\ huo = "QuHouXuYiShi" => lev.pend
  /\ huo = "QuHouWeiYiShi" => lev.pend /\ lev.op = "end"

\* 取 n directly followed by a statement that is neither 以施, 取, a comment
\* nor a macro.
C6_Witness ==
  /\ lev.op = "fu"
  /\ lev.prev = "qu"
  /\ lev.pend
  /\ huo = "QuHouXuYiShi"

\* ------------------------------------------------------------------ C7
\* C7: 以施 with no take pending is refused with 以施需先取; 以施 consumes the
\* pending take, so that a second 以施 right after it is refused; the body of
\* a procedure definition starts with no take pending, so that 以施 as its
\* first statement is refused.
C7_YiShi ==
  /\ lev.op = "yishi" =>
       IF lev.pend THEN huo = "none" /\ ~DaiQu
       ELSE huo = "YiShiXuXianQu"
  /\ (lev.op = "yishi" /\ lev.prev \in {"yishi", "proc", "init"}) =>
       huo = "YiShiXuXianQu"
  /\ (lev.op = "proc" /\ huo = "none") => ~DaiQu
  /\ huo = "YiShiXuXianQu" => lev.op = "yishi" /\ ~lev.pend

\* A second 以施 right after an 以施.
C7_Witness ==
  /\ lev.op = "yishi"
  /\ lev.prev = "yishi"
  /\ ~lev.pend
  /\ huo = "YiShiXuXianQu"

\* ------------------------------------------------------------------ C9
\* C9: after element k of a list is set to v, through the helper 置物 or
\* through the lowered 昔之「列」之 k 者今 v, reading element k through 取物
\* gives v, for every integer k: positive, zero or negative.
C9_SetGet ==
  iev.op \in SetOps => QuWu(lie, fuSuo, iev.k) = iev.v

\* 置物 at an index that is not positive, read back.
C9_Witness ==
  /\ iev.op = "zhiwu"
  /\ iev.k <= 0
  /\ Len(iev.lie) >= 1
  /\ QuWu(lie, fuSuo, iev.k) = iev.v

\* ------------------------------------------------------------------ C10
\* C10: an assignment to index k >= 1 of a list of length n: when k > n the
\* list grows to length exactly k, its first n elements stay, the elements
\* between are null and element k is the value; when k <= n the length stays
\* and only element k changes.  The side table is left alone.
C10_Pad ==
  (iev.op \in SetOps /\ iev.k >= 1) =>
    LET n == Len(iev.lie) IN
      /\ Len(lie) = (IF iev.k > n THEN iev.k ELSE n)
      /\ \A i \in 1..n : i # iev.k => lie[i] = iev.lie[i]
      /\ \A i \in (n + 1)..(iev.k - 1) : lie[i] = None
      /\ lie[iev.k] = iev.v
      /\ fuSuo = iev.suo

\* The lowered assignment at index 3 of a list of length 1.
C10_Witness ==
  /\ iev.op = "xijin"
  /\ Len(iev.lie) = 1
  /\ iev.k = 3
  /\ lie = <<iev.lie[1], None, iev.v>>

\* ------------------------------------------------------------------ C11
ShanOps == {"shan", "shanqi"}
ReadOps == {"fuzhi", "fuzhiqi"}

\* C11: a read, write or delete at a nonpositive index of a list leaves the
\* list's elements and length as they were; the read of an absent entry gives
\* null, a write sets the entry and only it, a delete removes the entry and
\* only it; an append, a positive-index write and a positive-index delete
\* leave every entry of the side table as it was, so that a written entry
\* reads the same afterwards.
C11_NegIdx ==
  /\ (iev.op \in SetOps \cup ShanOps \cup ReadOps /\ iev.k <= 0) =>
        /\ lie = iev.lie
        /\ \A j \in NegIdx \ {iev.k} : fuSuo[j] = iev.suo[j]
        /\ iev.op \in SetOps => fuSuo[iev.k] = iev.v
        /\ iev.op \in ShanOps =>
             fuSuo[iev.k] = Absent /\ QuWu(lie, fuSuo, iev.k) = None
        /\ iev.op \in ReadOps =>
             /\ fuSuo = iev.suo
             /\ iev.suo[iev.k] = Absent => TopOf(izhan) = None
             /\ iev.suo[iev.k] # Absent => TopOf(izhan) = iev.suo[iev.k]
  /\ (iev.op = "chong" \/ (iev.op \in SetOps \cup ShanOps /\ iev.k >= 1)) =>
        /\ fuSuo = iev.suo
        /\ \A j \in NegIdx : QuWu(lie, fuSuo, j) = QuWu(iev.lie, iev.suo, j)

\* An element is deleted from a list that has an entry at a nonpositive index.
C11_Witness ==
  /\ iev.op = "shan"
  /\ iev.k >= 1 /\ iev.k <= Len(iev.lie)
  /\ \E j \in NegIdx : iev.suo[j] # Absent /\ fuSuo[j] = iev.suo[j]
  /\ Len(lie) = Len(iev.lie) - 1

\* ------------------------------------------------------------------ C12
\* C12: deleting index k >= 1 of a list of length n: when k > n the list is
\* left as it was, never extended; when k <= n the length drops by one, the
\* elements before k stay and every later element moves down by one.
C12_Shan ==
  (iev.op \in ShanOps /\ iev.k >= 1) =>
    LET n == Len(iev.lie) IN
      IF iev.k > n THEN lie = iev.lie
      ELSE /\ Len(lie) = n - 1
           /\ \A i \in 1..(iev.k - 1) : lie[i] = iev.lie[i]
           /\ \A i \in iev.k..(n - 1) : lie[i] = iev.lie[i + 1]

\* The first of two different elements is deleted.
C12_Witness ==
  /\ iev.op = "shan"
  /\ iev.k = 1
  /\ Len(iev.lie) = 2 /\ iev.lie[1] # iev.lie[2]
  /\ lie = <<iev.lie[2]>>

\* ------------------------------------------------------------------ C13
\* C13: a procedure with n fixed parameters called with j < n arguments does
\* not run its body and gives a continuation holding the j arguments; further
\* calls with too few arguments in all again run no body and give a
\* continuation holding all arguments so far (n minus their number still
\* missing); the call that completes the n arguments runs the body once, with
\* the first n arguments in order (and the later ones as the rest list of a
\* procedure with a rest parameter), and gives what the single call with all
\* the arguments gives.
C13_Partial ==
  /\ (hev.op = "ming" /\ Len(hev.can) < ShuBiao[hev.shu].req) =>
        /\ shuZhi = ZhiOf("xu", hev.shu, hev.can, <<>>, WuShu, FALSE)
        /\ hlog = <<>>
  /\ hev.op = "xu" =>
        LET p == ShuBiao[hev.shu]
            dan == DiaoYong(BaoHanZhi(hev.shu), yiCan)
        IN IF Len(yiCan) < p.req
           THEN /\ shuZhi.lei \in {"xu", "houxu"}
                /\ shuZhi.shu = hev.shu /\ shuZhi.can = yiCan
                /\ shuZhi.lei = "houxu" => shuZhi.xu = p.req - Len(yiCan)
                /\ TiOf(hlog) = <<>>
           ELSE /\ shuZhi = dan.val
                /\ TiOf(hlog) = TiOf(dan.log)
                /\ Head(TiOf(hlog)) =
                     TiShi(hev.shu, SubSeq(yiCan, 1, p.req),
                           IF p.rest THEN SubSeq(yiCan, p.req + 1, Len(yiCan))
                           ELSE <<>>)
                /\ Cardinality({i \in DOMAIN TiOf(hlog) :
                                  TiOf(hlog)[i].shu = hev.shu}) = 1

\* A procedure of two parameters gets the first argument, then none, then the
\* second: the third call runs the body on both.
C13_Witness ==
  /\ hev.op = "xu" /\ hev.shu = "jia"
  /\ hev.qian.lei = "houxu"
  /\ hev.can = <<"y">> /\ yiCan = <<"x", "y">>
  /\ shuZhi = ZhiOf("zhi", "jia", <<"x", "y">>, <<>>, WuShu, FALSE)

\* ------------------------------------------------------------------ C14
\* C14: a wrapper called with at least its N fixed arguments: with a rest
\* parameter the body runs once, on the first N arguments and the list of the
\* remaining ones (possibly empty), and its result is the call's result;
\* without a rest parameter the body runs on the first N arguments, and when
\* arguments remain the body's result is called through __文言呼叫 with the
\* remaining arguments in order.
C14_Dispatch ==
  (hev.op = "ming" /\ Len(hev.can) >= ShuBiao[hev.shu].req) =>
    LET p == ShuBiao[hev.shu]
        gu == SubSeq(hev.can, 1, p.req)
        yu == SubSeq(hev.can, p.req + 1, Len(hev.can))
    IN /\ p.rest =>
            /\ hlog = <<TiShi(hev.shu, gu, yu)>>
            /\ shuZhi = BenHan(hev.shu, gu, yu)
       /\ (~p.rest /\ yu = <<>>) =>
            /\ hlog = <<TiShi(hev.shu, gu, <<>>)>>
            /\ shuZhi = BenHan(hev.shu, gu, <<>>)
       /\ (~p.rest /\ yu # <<>>) =>
            /\ Len(hlog) >= 2
            /\ hlog[1] = TiShi(hev.shu, gu, <<>>)
            /\ hlog[2] = HuShi(BenHan(hev.shu, gu, <<>>), yu)
            /\ shuZhi = WenYanHuJiao(BenHan(hev.shu, gu, <<>>), yu).val
            /\ \A i \in 2..Len(hlog) : hlog[i].shu # hev.shu

\* A procedure of one parameter that returns a procedure with a rest parameter
\* is called with three arguments.
C14_Witness ==
  /\ hev.op = "ming" /\ hev.shu = "lian"
  /\ hev.can = <<"x", "y", "x">>
  /\ shuZhi = ZhiOf("zhi", "yu", <<"y">>, <<"x">>, WuShu, FALSE)
  /\ Len(hlog) = 3

\* ------------------------------------------------------------------ C15
Named(hs) == {i \in DOMAIN hs : \A k \in 1..i : hs[k].ming # YiKe}
Matches(hs, m) == {i \in Named(hs) : hs[i].ming = m}
CatchAll(hs) == {i \in DOMAIN hs : hs[i].ming = YiKe /\ (i - 1) \in Named(hs) \cup {0}}

\* C15 as stated: a fault that matches no handler of a try without a
\* catch-all keeps propagating.
C15_Original ==
  (tev.op = "bu" /\ Matches(tev.hs, tev.huo) = {} /\ CatchAll(tev.hs) = {}) =>
     huoMing = tev.huo

\* C15: a 文言之禍 raised in a 姑妄行此 body is handled by the first named
\* handler, in source order and before any catch-all, whose name is the
\* fault's name, by the first catch-all when no named handler before it
\* matches; at most one handler body runs and its variable, if any, is bound
\* to the fault; a fault that matches no handler of a try without a catch-all
\* runs no handler body and is dropped there: it does not propagate, and the
\* program goes on after the 試句.  An exception that is no 文言之禍 passes.
C15_Handlers ==
  /\ tev.op = "bu" =>
       LET ms == Matches(tev.hs, tev.huo)
           cs == CatchAll(tev.hs)
       IN /\ ms # {} => tev.ran \in ms /\ \A j \in ms : tev.ran <= j
          /\ (ms = {} /\ cs # {}) => tev.ran \in cs
          /\ (ms = {} /\ cs = {}) => tev.ran = 0 /\ tev.bang = "none"
          /\ (tev.ran > 0 /\ tev.hs[tev.ran].bian) => tev.bang = tev.huo
          /\ huoMing = "none"
  /\ tev.op = "guo" => huoMing = "err"

\* The second of two named handlers matches and binds the fault.
C15_Witness ==
  /\ tev.op = "bu" /\ Len(tev.hs) = 2
  /\ tev.hs[1].ming = "xiao" /\ tev.hs[2].ming = "da" /\ tev.hs[2].bian
  /\ tev.huo = "da" /\ tev.ran = 2 /\ tev.bang = "da"
  /\ huoMing = "none"

\* ------------------------------------------------------------- imports
\* The import graph of the files: the modules a file names, the modules
\* reached from a file by one import or more, whether a cycle is reachable
\* from the compiled file.
Succ(m) == {wenJian[m][k] : k \in 1..Len(wenJian[m])}
RECURSIVE Kai(_)
Kai(S) == LET T == S \cup UNION {Succ(m) : m \in S} IN IF T = S THEN S ELSE Kai(T)
KeDa(m) == Kai(Succ(m))
Cyclic == \E m \in {Gen} \cup KeDa(Gen) : m \in KeDa(m)
\* the frames of macro collection / of preprocessing and lowering
ZhanOf(K) == {k \in 1..Len(diaoZhan) : diaoZhan[k].jie \in K}
Distinct(F) == \A j, k \in F : diaoZhan[j].lu = diaoZhan[k].lu => j = k

C16_Inv ==
  /\ guo = "done" => ~Cyclic
  /\ guo = "xunhuan" => Cyclic
  /\ Distinct(ZhanOf({"hong"})) /\ Distinct(ZhanOf({"qian", "zhuan"}))
  /\ Len(diaoZhan) <= 2 * Cardinality(MoZu)

\* C16: Import cycle safety.  Whatever the import graph of the compiled file
\* is, the compilation ends: with the fault 循環匯入 only if a cycle is
\* reachable from the compiled file, with a program only if none is; no path
\* is entered twice by the calls in progress, so the recursion is never
\* deeper than the number of paths allows.
C16_Cycle == []C16_Inv /\ <>(guo \in {"done", "xunhuan"})

\* A cycle through two modules was cut by the fault while the second was being
\* entered from the first.
C16_Witness ==
  /\ guo = "xunhuan"
  /\ \E m \in MoZu \ {Gen} : \E n \in KeDa(m) \ {m, Gen} : m \in KeDa(n)
  /\ Len(diaoZhan) >= 3

\* The program the import graph calls for: the code of every module once,
\* where the first import statement reaching it stands, imports taken depth
\* first in source order, the code of a file after that of its imports.
RECURSIVE Dfs(_, _, _)
Dfs(lu, k, st) ==
  IF k > Len(wenJian[lu]) THEN [st EXCEPT !.ju = Append(@, lu)]
  ELSE LET t == wenJian[lu][k] IN
       IF t \in st.seen THEN Dfs(lu, k + 1, st)
       ELSE Dfs(lu, k + 1, Dfs(t, 1, [st EXCEPT !.seen = @ \cup {t}]))
Expected == Dfs(Gen, 1, [ju |-> <<>>, seen |-> {Gen}]).ju

\* C17: In one compilation environment every path is read, parsed and
\* lowered at most once; every import of a path after the first one that
\* returned contributes no statements; and the finished program holds the
\* code of every module reached exactly once, at the first import statement
\* reaching it in depth-first source order.
C17_Once ==
  /\ \A m \in MoZu :
       /\ zhang[m].du <= 1 /\ zhang[m].xi <= 1
       /\ \A k \in 2..Len(zhang[m].fan) : zhang[m].fan[k] = <<>>
  /\ guo = "done" => chengXu = Expected

\* A diamond was compiled: two modules import a third, whose import returned
\* twice, and the program holds four files' code.
C17_Witness ==
  /\ guo = "done" /\ Len(chengXu) = 4
  /\ \E m \in MoZu \ {Gen} :
       /\ Len(zhang[m].fan) = 2
       /\ \E a, b \in MoZu \ {Gen, m} : a # b /\ m \in Succ(a) /\ m \in Succ(b)

\* C18 as stated: the second lowering of an import of M returns the statement
\* list the first one returned.
C18_Original ==
  \A m \in MoZu : Len(zhang[m].fan) >= 2 => zhang[m].fan[2] = zhang[m].fan[1]

\* C18: Of the lowerings of imports of M in one environment, the first
\* compiles M, stores its statement list in 模組快取 and returns it; every
\* later one returns no statements, compiles nothing, and leaves the stored
\* list as it was.
C18_Idempotent ==
  \A m \in MoZu : Len(zhang[m].fan) >= 1 =>
    /\ zhang[m].fan[1] = huanJing.moKuai[m] /\ zhang[m].fan[1] # <<>>
    /\ \A k \in 2..Len(zhang[m].fan) : zhang[m].fan[k] = <<>>
    /\ zhang[m].xi = 1 /\ m \in huanJing.yiZai

\* The compiled file imports the same module twice, and both imports were
\* lowered.
C18_Witness ==
  /\ Len(wenJian[Gen]) = 2 /\ wenJian[Gen][1] = wenJian[Gen][2]
  /\ Len(zhang[wenJian[Gen][1]].fan) = 2

\* ------------------------------------------------------------- macro expansion
\* The text w holds the characters y somewhere; the position s lies in one
\* of the spans; a macro of the list matches within the characters y.
Appears(y, w) == \E i \in 1..(Len(w) + 1) : StartsWith(w, i, y)
Inside(s, fan) == \E k \in DOMAIN fan : fan[k][1] <= s /\ s < fan[k][2]
MatchIn(y) == \E j \in DOMAIN hongLie : PiPei(y, hongLie[j], 1).zuo # 0

\* C19 as stated: when no match lies inside a string literal of the text
\* given, every string literal of that text stands in the expanded text.
C19_Original ==
  (mguo = "done" /\ \A k \in DOMAIN zhui : ~MatchIn(zhui[k].yuan))
    => \A k \in DOMAIN zhui : Appears(zhui[k].yuan, wen)

\* C19: Only the place where a match starts is held against the string
\* literals.  A match that starts inside a literal is skipped and the text
\* stays as it is; a match that is substituted starts outside every literal;
\* a literal of the text given changes only when a substituted match starts
\* before it and reaches into or over it, and every other literal stands
\* character for character in the text, moved by the substitutions before it.
C19_Literals ==
  /\ \A k \in DOMAIN zhui : ~zhui[k].po =>
       /\ zhui[k].you - 1 <= Len(wen)
       /\ SubSeq(wen, zhui[k].zuo, zhui[k].you - 1) = zhui[k].yuan
  /\ mev.op = "ti" =>
       /\ ~Inside(mev.zuo, mev.fan)
       /\ \A x \in mev.sun : mev.zuo < x[1] /\ x[1] < mev.you
  /\ mev.op = "tiao" =>
       /\ Inside(mev.zuo, mev.fan) /\ mev.sun = {}
       /\ \A k \in DOMAIN zhui : zhui[k].po \/ ZiChuanFanWei(wen, 1).huo
                                 \/ Inside(zhui[k].zuo, ZiChuanFanWei(wen, 1).fan)

\* The expansion is over; a match inside a literal was skipped, another one
\* was substituted before a literal, which moved and stands unchanged.
C19_Witness ==
  /\ mguo = "done" /\ mev.ti /\ mev.tiao
  /\ \E k \in DOMAIN zhui :
       /\ ~zhui[k].po /\ MatchIn(zhui[k].yuan)
       /\ zhui[k].zuo > 1 /\ Appears(zhui[k].yuan, wen)

\* ------------------------------------------------------------- tokenizer
\* the keywords the source starts with at the position i
PrefixesAt(i) == {GuanJianCi[k] : k \in {j \in DOMAIN GuanJianCi : StartsWith(neiRong, i, GuanJianCi[j])}}

\* C20: Longest-match keywords.  A keyword token yielded at a position is a
\* keyword the source starts with there, its span is as long as the keyword,
\* and no keyword the source starts with there is longer.
C20_Longest ==
  \A t \in DOMAIN fuLie : fuLie[t].lei = "ci" =>
    /\ fuLie[t].ci \in PrefixesAt(fuLie[t].zuo)
    /\ fuLie[t].you = fuLie[t].zuo + Len(fuLie[t].ci)
    /\ \A k \in PrefixesAt(fuLie[t].zuo) : Len(k) <= Len(fuLie[t].ci)

\* After a data run 乃得矣 was yielded, where 乃得 is a keyword too.
C20_Witness ==
  /\ lguo = "done" /\ Len(fuLie) = 2 /\ fuLie[1].lei = "shuju"
  /\ fuLie[2].ci = <<"nai", "de", "yi">>
  /\ Cardinality(PrefixesAt(fuLie[2].zuo)) = 2

\* the value of 層級 after the characters z..j; the first position from z on
\* after which it is 0, 0 if there is none
Ceng(z, j) ==
  Cardinality({k \in z..j : neiRong[k] = "["}) - Cardinality({k \in z..j : neiRong[k] = "]"})
  + 2 * Cardinality({k \in z..j : neiRong[k] = "<"}) - 2 * Cardinality({k \in z..j : neiRong[k] = ">"})
Closes(z) ==
  LET S == {j \in z..Len(neiRong) : Ceng(z, j) = 0} IN
  IF S = {} THEN 0 ELSE CHOOSE j \in S : \A k \in S : j <= k
\* the literal at z gets the extra 」
Extra(z) ==
  /\ StartsWith(neiRong, z, <<"[", "[">>)
  /\ Closes(z) < Len(neiRong) /\ neiRong[Closes(z) + 1] = "]"

\* C21: A string literal token starts at a 「「 or a 『 and ends where 層級
\* first returns to 0, one character later when it was opened by 「「 and a 」
\* follows, never later for one opened by 『; the extra 」 is the last
\* character of the value, after the characters between the quotes; the next
\* token starts at or after the end.  言未尽 ends the tokenizer exactly when
\* 層級 does not return to 0 before the source ends.
C21_Yan ==
  /\ \A t \in DOMAIN fuLie : fuLie[t].lei = "yan" =>
       LET z == fuLie[t].zuo
           kai == IF neiRong[z] = "<" THEN 1 ELSE 2
           e == Closes(z)
           bi == IF neiRong[e] = "]" THEN 2 ELSE 1
           x == IF Extra(z) THEN 1 ELSE 0
       IN /\ e # 0 /\ fuLie[t].you = e + 1 + x
          /\ neiRong[z] = "<" => x = 0
          /\ fuLie[t].ci = SubSeq(neiRong, z + kai, e - bi) \o (IF x = 1 THEN <<"]">> ELSE <<>>)
          /\ t < Len(fuLie) => fuLie[t + 1].zuo >= fuLie[t].you
          /\ lguo = "run" => suoYin >= fuLie[t].you
  /\ lguo = "yanweijin" => Closes(suoYin) = 0 /\ FenZhi(neiRong, suoYin) = "yan"

\* 「「x」」」 was read as one literal of six characters with the value x」, and
\* the tokenizer is done.
C21_Witness ==
  /\ lguo = "done" /\ Len(fuLie) = 1 /\ fuLie[1].lei = "yan"
  /\ neiRong = <<"[", "[", "x", "]", "]", "]">>
  /\ fuLie[1].you = 7 /\ fuLie[1].ci = <<"x", "]">>

\* ------------------------------------------------------------- numerals
\* The value of a numeral read the usual way: a run of digits reads by
\* position; otherwise the greatest unit, which stands once, multiplies what
\* stands before it (1 when nothing does) and what stands after it is added.
\* ok is FALSE for a numeral not written that way (a unit repeated at its
\* level, several digits before a unit, a unit before 十 or 百).
AllDigits(s) == \A k \in DOMAIN s : s[k] \in DOMAIN ShuZiDuiZhao
RECURSIVE MathV(_)
MathV(s) ==
  IF s = <<>> THEN [ok |-> TRUE, v |-> <<>>]
  ELSE IF AllDigits(s)
  THEN [ok |-> Len(s) = 1 \/ (Len(s) = 2 /\ s[1] = "0"), v |-> ZhengOf(s)]
  ELSE LET U == {k \in DOMAIN s : s[k] \in DOMAIN DanWei}
           m == CHOOSE e \in {DanWei[s[k]] : k \in U} : \A k \in U : DanWei[s[k]] <= e
           P == {k \in U : DanWei[s[k]] = m}
           p == CHOOSE k \in P : TRUE
           l == MathV(SubSeq(s, 1, p - 1))
           r == MathV(SubSeq(s, p + 1, Len(s)))
       IN [ok |-> /\ Cardinality(P) = 1 /\ l.ok /\ r.ok /\ (p > 1 => l.v # <<>>)
                  /\ (m < 4 => (p = 1 \/ (p = 2 /\ s[1] \in DOMAIN ShuZiDuiZhao))),
           v |-> Jia(Cheng(IF p = 1 THEN <<1>> ELSE l.v, m), r.v, 0)]
StrOf(n) == IF n = <<>> THEN <<0>> ELSE [k \in 1..Len(n) |-> n[Len(n) + 1 - k]]
Body == IF shuZi.ru # <<>> /\ Head(shuZi.ru) = "-" THEN Tail(shuZi.ru) ELSE shuZi.ru

\* C22: Every integer numeral the decoder accepts comes back as a decimal
\* literal, digits only after the sign kept from 負, no leading zero, that
\* reads as the value of the numeral.
C22_Original ==
  ~shuZi.chu.huo =>
    /\ shuZi.chu.wei # <<>> /\ \A k \in DOMAIN shuZi.chu.wei : shuZi.chu.wei[k] \in 0..9
    /\ Len(shuZi.chu.wei) > 1 => shuZi.chu.wei[1] # 0
    /\ shuZi.chu.fu = (Head(shuZi.ru) = "-")
    /\ AllDigits(Body) => shuZi.chu.wei = StrOf(ZhengOf(Body))
    /\ (~AllDigits(Body) /\ MathV(Body).ok) => shuZi.chu.wei = StrOf(MathV(Body).v)

\* ---------------------------------------------------------------- parser
\* len(內容) of the source the tokens were read from
YuanChang == IF yuanFu = <<>> THEN 0 ELSE yuanFu[Len(yuanFu)].you

\* C23: Statement spans.  Of a source that parses, every statement's span
\* lies within the source, and of two statements of one block the earlier
\* one ends before the later one starts.
C23_Original ==
  pguo = "done" =>
    /\ \A k \in DOMAIN chengJu :
         0 <= chengJu[k].zuo /\ chengJu[k].zuo <= chengJu[k].you /\ chengJu[k].you <= YuanChang
    /\ \A j, k \in DOMAIN chengJu :
         (j < k /\ chengJu[j].fu = chengJu[k].fu) => chengJu[j].you <= chengJu[k].zuo

\* the classes of the structural closers among the tokens of the sources
ShouShu == {"ye", "yunyun", "ruofei", "shiwei"}
\* the token after the k-th of the source is a structural closer; no token is
HouShou(k) == k < Len(yuanFu) /\ yuanFu[k + 1].lei \in ShouShu
HouWu(k) == k = Len(yuanFu)
\* a 也 with the span of the k-th token of the source is in 符號列
BuYe(k) ==
  \E j \in DOMAIN fuHao : fuHao[j] = [lei |-> "ye", zuo |-> yuanFu[k].zuo, you |-> yuanFu[k].you]
\* the statement the k-th token of the source ends
JuZhi(k) == CHOOSE j \in DOMAIN chengJu : chengJu[j].lei = "xijin" /\ chengJu[j].you = yuanFu[k].you

\* C24 as stated: Of a source that parses, a 是也 that ends an assignment or
\* a deletion and is followed by a structural closer has its 也 put back
\* into the token list.
C24_Original ==
  pguo = "done" =>
    \A k \in DOMAIN yuanFu : (yuanFu[k].lei = "shiye" /\ HouShou(k)) => BuYe(k)

\* C24: The 也 of 是也.  Of a source that parses, a 是也 that ends an
\* assignment or a deletion has its 也 put back into the token list, with the
\* span of the 是也, exactly when a token follows that is not a structural
\* closer.  The 也 put back closes the 若 block the statement is in, and in a
\* procedure body or at the top it is an empty statement of its own.
C24_Closer ==
  pguo = "done" =>
    \A k \in DOMAIN yuanFu : yuanFu[k].lei = "shiye" =>
      /\ BuYe(k) <=> ~HouShou(k) /\ ~HouWu(k)
      /\ Len(fuHao) = Len(yuanFu) + Cardinality({j \in DOMAIN yuanFu : yuanFu[j].lei = "shiye" /\ BuYe(j)})
      /\ BuYe(k) =>
           LET p == chengJu[JuZhi(k)].fu IN
           IF p # 0 /\ chengJu[p].lei = "ruo"
           THEN chengJu[p].you = yuanFu[k].you
           ELSE \E j \in DOMAIN chengJu :
                  chengJu[j] = [lei |-> "zhushi", zuo |-> yuanFu[k].zuo, you |-> yuanFu[k].you, fu |-> p]

\* 若其然者 昔之甲者今一是也 書之: the 也 put back closed the 若 and 書之 is
\* a statement of the top.
C24_Witness ==
  /\ pguo = "done"
  /\ \E k \in DOMAIN yuanFu :
       /\ yuanFu[k].lei = "shiye" /\ BuYe(k) /\ yuanFu[k - 1].lei = "shu"
       /\ chengJu[JuZhi(k)].fu # 0 /\ chengJu[chengJu[JuZhi(k)].fu].lei = "ruo"
       /\ \E j \in DOMAIN chengJu :
            chengJu[j].lei = "shuzhi" /\ chengJu[j].fu = 0 /\ chengJu[j].zuo = yuanFu[k].you

\* a plain declaration of a 術 variable starts at the k-th token
XuanGaoTou(k) ==
  /\ k + 4 <= Len(yuanFu)
  /\ <<yuanFu[k].lei, yuanFu[k + 1].lei, yuanFu[k + 2].lei, yuanFu[k + 3].lei, yuanFu[k + 4].lei>>
       = <<"wuyou", "shu", "shuT", "mingzhi", "ming">>
  /\ k + 5 <= Len(yuanFu) => yuanFu[k + 5].lei # "shishu"

\* C26: Procedure lookahead.  A source that starts with a plain declaration
\* of a 術 variable has that declaration as its first statement, whatever
\* procedure definition or body marker stands later in the source.
C26_Original ==
  (pguo # "idle" /\ XuanGaoTou(1)) =>
    /\ chengJu # <<>>
    /\ chengJu[1] = [lei |-> "xuangao", zuo |-> 0, you |-> yuanFu[5].you, fu |-> 0]

\* -------------------------------------------------------- internal names
\* C25: Deterministic lowering.  Two compilations of the same program, in
\* one process or in two, generate the same internal names.
C25_Original ==
  \A j, k \in DOMAIN yiLie : yiLie[j].ming = yiLie[k].ming

\* C30: Distinct internal names.  The internal names of one compiled
\* program, those of the imported module included, are pairwise distinct.
C30_Original ==
  \A c \in DOMAIN yiLie : \A j, k \in DOMAIN yiLie[c].ming :
    j # k => yiLie[c].ming[j] # yiLie[c].ming[k]

\* --------------------------------------------------------- scope analysis
\* the names a statement list assigns without an index, and the names it
\* binds: blocks count, the bodies of procedures in it do not
RECURSIVE FuZhiZhong(_)
FuZhiZhong(js) ==
  IF js = <<>> THEN {}
  ELSE LET s == Head(js) IN
       FuZhiZhong(Tail(js)) \cup
         (IF s.lei = "xijin" /\ ~s.biao THEN {s.ming}
          ELSE IF s.lei = "ruo" THEN FuZhiZhong(s.ti) ELSE {})
RECURSIVE BangZhong(_)
BangZhong(js) ==
  IF js = <<>> THEN {}
  ELSE LET s == Head(js) IN
       BangZhong(Tail(js)) \cup
         (IF s.lei \in {"xuangao", "shu"} THEN {s.ming}
          ELSE IF s.lei = "ruo" THEN BangZhong(s.ti) ELSE {})
\* the procedure defined in a statement list; what a procedure binds; the
\* 作用域資訊 the analysis gave for a procedure
ShuJu_(js) == LET k == CHOOSE j \in DOMAIN js : js[j].lei = "shu" IN js[k]
BenDi(s) == BangZhong(s.ti) \cup {s.can[k] : k \in DOMAIN s.can}
ZiXun(s) == LET k == CHOOSE j \in DOMAIN zuoYong.jie : zuoYong.jie[j].shu = s.ming IN zuoYong.jie[k]
ShuP == ShuJu_(zuoYong.ju)
ShuQ == ShuJu_(ShuP.ti)

\* C27: Globals and nonlocals.  For a procedure and a name: the name is in
\* the procedure's nonlocals exactly when the procedure assigns it without
\* an index, does not bind it, and an enclosing procedure binds it (the
\* nearest scope binding it is then a procedure); in its globals exactly
\* when the procedure assigns it without an index, does not bind it, and no
\* enclosing procedure binds it.  The two sets are disjoint and hold no name
\* the procedure binds.
C27_Scopes ==
  zuoYong.jiao =>
    \A x \in MingShu \cup {PMing, QMing} :
      /\ x \in ZiXun(ShuQ).feiqu <=>
           x \in FuZhiZhong(ShuQ.ti) /\ x \notin BenDi(ShuQ) /\ x \in BenDi(ShuP)
      /\ x \in ZiXun(ShuQ).quanyu <=>
           x \in FuZhiZhong(ShuQ.ti) /\ x \notin BenDi(ShuQ) /\ x \notin BenDi(ShuP)
      /\ x \notin ZiXun(ShuP).feiqu
      /\ x \in ZiXun(ShuP).quanyu <=> x \in FuZhiZhong(ShuP.ti) /\ x \notin BenDi(ShuP)
      /\ \A s \in {ShuP, ShuQ} :
           /\ ZiXun(s).feiqu \cap ZiXun(s).quanyu = {}
           /\ (ZiXun(s).feiqu \cup ZiXun(s).quanyu) \cap BenDi(s) = {}

\* Q assigns a name P binds and a name only the top level declares, one of
\* them in a 若 block.
C27_Witness ==
  /\ zuoYong.jiao
  /\ ZiXun(ShuQ).feiqu # {} /\ ZiXun(ShuQ).quanyu # {}
  /\ ZiXun(ShuQ).quanyu \subseteq BangZhong(zuoYong.ju)
  /\ \E k \in DOMAIN ShuQ.ti : ShuQ.ti[k].lei = "ruo" /\ FuZhiZhong(ShuQ.ti[k].ti) # {}

\* --------------------------------------------------------- list formatter
\* maxLen, colWidth and total of the list formatted
ZuiChang == CHOOSE m \in {geShi.chang[i] : i \in DOMAIN geShi.chang} :
              \A i \in DOMAIN geShi.chang : geShi.chang[i] <= m
LanKuan == ZuiChang + 2
RECURSIVE He(_)
He(cs) == IF cs = <<>> THEN 0 ELSE Head(cs) + 2 + He(Tail(cs))

\* C28 as stated: A list of more than 6 items is kept as a single column
\* exactly when 3*colWidth + indent >= 80 and total/colWidth <= 5 and
\* maxLen > 6 all hold; a column count is at most 12.
C28_Original ==
  (geShi.jiao /\ Len(geShi.chang) > 6) =>
    /\ geShi.jie.zu = "dan" <=>
         /\ 3 * LanKuan + geShi.suo >= 80
         /\ He(geShi.chang) <= 5 * LanKuan
         /\ ZuiChang > 6
    /\ geShi.jie.lan <= 12

\* C28: Single column.  A list of more than 6 items is kept as a single
\* column exactly when 3*colWidth + indent >= 80, or total/colWidth <= 5 and
\* maxLen > 6; otherwise a column count is made, and it is at most 12.
C28_Columns ==
  (geShi.jiao /\ Len(geShi.chang) > 6) =>
    /\ geShi.jie.zu = "dan" <=>
         \/ 3 * LanKuan + geShi.suo >= 80
         \/ He(geShi.chang) <= 5 * LanKuan /\ ZuiChang > 6
    /\ geShi.jie.zu # "dan" => geShi.jie.zu = "lan" /\ geShi.jie.lan <= 12

\* a list of 64 short items at the top, for which the rounded estimate and
\* the width allow more than 12 columns
C28_Witness ==
  /\ geShi.jiao /\ Len(geShi.chang) = 64 /\ ZuiChang = 1 /\ geShi.suo = 0
  /\ geShi.jie = [zu |-> "lan", lan |-> 12]

\* ------------------------------------------------------- macro expansion
\* C29: Termination.  擴展宏, once called, returns or raises, whatever the
\* macros and the text are.
C29_Original == <>(mguo \notin {"idle", "run"})

====
